---- MODULE Spec2Model ----
(***************************************************************************)
(* Market state and deterministic execution engine of polymarket-bot:      *)
(* the in-memory order book, the risk gate with its risk manager, and the  *)
(* paper execution simulator.                                              *)
(*                                                                         *)
(* Decimal values (decimal.js, exact arithmetic) are modelled as integers  *)
(* in a fixed unit; an optional value (x?: number) is the empty set or a   *)
(* singleton set.                                                          *)
(***************************************************************************)
EXTENDS Integers, Sequences, FiniteSets, TLC

VARIABLES
    now,            \* the wall clock read by new Date() / Date.now(), ms
    bids,           \* InMemoryOrderBook.book.bids
    asks,           \* InMemoryOrderBook.book.asks
    bookSequence,   \* InMemoryOrderBook.book.sequence (optional)
    lastSequence,   \* InMemoryOrderBook.lastSequence (optional)
    lastUpdate,     \* InMemoryOrderBook.book.lastUpdate
    inbox,          \* the book update delivered by the feed, not yet applied
    obCall,         \* the arguments and outcome of the last applyDelta call
    killSwitchFile, \* whether the file kill-switch.flag exists
    rmConfig,       \* RiskManager.config, the limits getConfig() read from the environment
    dailyPnl,       \* RiskManager.dailyPnl
    dailyStartTime, \* RiskManager.dailyStartTime
    orderCount,     \* RiskManager.orderCount
    orderWindowStart, \* RiskManager.orderWindowStart
    rgConfig,       \* RiskGate.config, the limits the gate was constructed with
    lastPriceUpdate, \* RiskGate.lastPriceUpdate: token -> optional time
    positions,      \* the caller's positions, keyed by <<marketId, tokenId>>
    balance,        \* the caller's balance
    gateCall,       \* the signal and the decision of the last gateSignal call
    pnlToday,       \* history: the PnL recorded since the start of the current UTC day
    ratePasses,     \* history: the times of the evaluations that passed the order-rate check
    simConfig,      \* PaperExecutionSim.config, the same for both simulators
    sims,           \* the PaperExecutionSim instances: openOrders and fills of each
    cbConfig,       \* RiskManager.config: the circuit-breaker limits of the environment
    errorCount,     \* RiskManager.errorCount
    errorWindowStart, \* RiskManager.errorWindowStart
    cbCall,         \* the last checkCircuitBreakers call: arguments and result
    errorTimes,     \* history: the times of the recordError calls
    simCall,        \* the last call on the first simulator: arguments and result
    closedIds,      \* history: the order ids that left the open table of the first simulator
    sizeCall,       \* the last calculatePositionSize call: arguments and result
    books,          \* OrderBookStore.books: token -> optional book
    trades,         \* TradeTapeStore.trades: token -> the trade records kept
    priceHistory,   \* MarketStateStore.priceHistory: token -> the prices kept
    emas,           \* MarketStateStore.emas: token -> optional EMA, by its value
    storeCall,      \* the last call on the store: arguments and result
    added,          \* history: token -> the prices of all the trades added, in order
    readSince,      \* history: token -> the features last read since its last update
    readCount,      \* history: the number of getDerivedFeatures calls made
    runner,         \* ExperimentRunner.run: its place in the tick, allSignals, gatedSignals
    signalCount,    \* the number of signals the strategies have produced
    gatedIds,       \* history: the ids of the signals returned with gated = true
    passedIds,      \* history: the ids of the signals returned with gated = false
    ledger,         \* history: order id -> the size it was placed with and the sizes filled since
    bot,            \* TradingBot: isRunning, the interval timer and the tick() calls in progress
    ingest,         \* MarketIngestion: orderBooks, wsDisconnectTime and the REST reads in flight
    limiter,        \* TokenBucketRateLimiter: tokens, lastRefill and the acquire() calls waiting
    wsc             \* PolymarketWebSocketClient: ws, reconnectTimer, isConnecting, its sockets

obVars == <<bids, asks, bookSequence, lastSequence, lastUpdate, inbox, obCall>>

rmVars == <<killSwitchFile, rmConfig, dailyPnl, dailyStartTime, orderCount,
           orderWindowStart>>
rgVars == <<rgConfig, lastPriceUpdate, positions, balance, gateCall>>
histVars == <<pnlToday, ratePasses>>
gateVars == <<rmVars, rgVars, histVars>>

\* each component leaves the state of the other components alone
simVars == <<simConfig, sims>>
cbVars == <<cbConfig, errorCount, errorWindowStart, cbCall, errorTimes>>
simCallVars == <<simCall, closedIds>>
sizingVars == <<sizeCall>>
storeVars == <<books, trades, priceHistory, emas, storeCall, added, readSince, readCount>>
runnerVars == <<runner, signalCount, gatedIds, passedIds>>
ledgerVars == <<ledger>>
appVars == <<bot, ingest, limiter, wsc>>
OnlyBook == UNCHANGED <<gateVars, simVars, cbVars, simCallVars, sizingVars, storeVars, runnerVars, ledgerVars, appVars>>
OnlyGate == UNCHANGED <<obVars, simVars, cbVars, simCallVars, sizingVars, storeVars, runnerVars, ledgerVars, appVars>>
OnlySim == UNCHANGED <<obVars, gateVars, cbVars, simCallVars, sizingVars, storeVars, runnerVars, ledgerVars, appVars>>
OnlyBreakers == UNCHANGED <<obVars, gateVars, simVars, simCallVars, sizingVars, storeVars, runnerVars, ledgerVars, appVars>>
OnlySimCall == UNCHANGED <<obVars, gateVars, cbVars, sizingVars, storeVars, runnerVars, ledgerVars, appVars>>
OnlySizing == UNCHANGED <<obVars, gateVars, simVars, cbVars, simCallVars, storeVars, runnerVars, ledgerVars, appVars>>
OnlyStore == UNCHANGED <<obVars, gateVars, simVars, cbVars, simCallVars, sizingVars, runnerVars, ledgerVars, appVars>>

(***************************************************************************)
(* Bounds of the model                                                     *)
(***************************************************************************)
MaxPrice == 2
MaxSize == 2
MaxUpdates == 2
MaxSeq == 1
BookMaxTime == 1
MaxPosition == 2
MaxSignalSize == 2
MaxLoss == 2
MaxWindows == 1
MaxLimitPrice == 2
MaxOrderSize == 2
MaxFills == 1
MaxErrors == 3

Prices == 1..MaxPrice
\* a delta entry with size <= 0 removes the price
UpdateSizes == 0..MaxSize
StoredSizes == 1..MaxSize

None == {}
Some(x) == {x}
IsSome(o) == o # {}
ValueOf(o) == CHOOSE x \in o : TRUE

PriceLevel(p, s) == [price |-> p, size |-> s]
UpdateLevels == {PriceLevel(p, s) : p \in Prices, s \in UpdateSizes}

SeqsUpTo(S, n) == UNION {[1..k -> S] : k \in 0..n}

(***************************************************************************)
(* InMemoryOrderBook                                                       *)
(***************************************************************************)

\* Map.set(key, level) / Map.delete(key) on a Map keyed by price.toString();
\* decimal.js prints equal values identically, so the key is the price.
\* A Map iterates in insertion order: the map is a sequence of levels in
\* which no price occurs twice.
MapIndex(m, p) == {i \in 1..Len(m) : m[i].price = p}

MapDelete(m, p) == SelectSeq(m, LAMBDA l : l.price # p)

MapSet(m, level) ==
    IF MapIndex(m, level.price) = {}
    THEN Append(m, level)
    ELSE [i \in 1..Len(m) |-> IF m[i].price = level.price THEN level ELSE m[i]]

RECURSIVE MapFromLevels(_, _)
MapFromLevels(m, levels) ==
    IF levels = <<>> THEN m
    ELSE MapFromLevels(MapSet(m, Head(levels)), Tail(levels))

\* an update that never overwrites a price already in the map
ApplyOneUpdateKeepExisting(m, update) ==
    IF update.size <= 0 THEN MapDelete(m, update.price)
    ELSE IF MapIndex(m, update.price) = {} THEN MapSet(m, update) ELSE m

ApplyOneUpdate(m, update) ==
    IF update.size <= 0 THEN MapDelete(m, update.price) ELSE MapSet(m, update)

RECURSIVE ApplyUpdates(_, _)
ApplyUpdates(m, updates) ==
    IF updates = <<>> THEN m
    ELSE ApplyUpdates(ApplyOneUpdate(m, Head(updates)), Tail(updates))

\* the comparator of levels.sort: cmp for 'asc', -cmp for 'desc'
Before(a, b, sortOrder) ==
    IF sortOrder = "asc" THEN a.price < b.price ELSE a.price > b.price

\* Array.prototype.sort is stable: insertion sort keeps equal keys in order
RECURSIVE InsertSorted(_, _, _)
InsertSorted(sorted, level, sortOrder) ==
    IF sorted = <<>> THEN <<level>>
    ELSE IF Before(level, Head(sorted), sortOrder)
         THEN <<level>> \o sorted
         ELSE <<Head(sorted)>> \o InsertSorted(Tail(sorted), level, sortOrder)

RECURSIVE SortLevels(_, _)
SortLevels(levels, sortOrder) ==
    IF levels = <<>> THEN <<>>
    ELSE InsertSorted(SortLevels(SubSeq(levels, 1, Len(levels) - 1), sortOrder),
                      levels[Len(levels)], sortOrder)

\* the merge without the final sort
applyLevelsUnsorted(existing, updates, sortOrder) ==
    ApplyUpdates(MapFromLevels(<<>>, existing), updates)

applyLevels(existing, updates, sortOrder) ==
    SortLevels(ApplyUpdates(MapFromLevels(<<>>, existing), updates), sortOrder)

\* a stale test that lets an equal sequence number through
IsStaleStrict(sequence) ==
    /\ IsSome(sequence)
    /\ IsSome(lastSequence)
    /\ ValueOf(sequence) < ValueOf(lastSequence)

IsStale(sequence) ==
    /\ IsSome(sequence)
    /\ IsSome(lastSequence)
    /\ ValueOf(sequence) <= ValueOf(lastSequence)

applyDelta(bidUpdates, askUpdates, sequence) ==
    /\ obCall' = [op |-> "applyDelta", bids |-> bidUpdates, asks |-> askUpdates,
                  sequence |-> sequence, applied |-> ~IsStale(sequence)]
    /\ IF IsStale(sequence)
       THEN UNCHANGED <<bids, asks, bookSequence, lastSequence, lastUpdate>>
       ELSE /\ bids' = applyLevels(bids, bidUpdates, "desc")
            /\ asks' = applyLevels(asks, askUpdates, "asc")
            /\ lastUpdate' = now
            /\ IF IsSome(sequence)
               THEN lastSequence' = sequence /\ bookSequence' = sequence
               ELSE UNCHANGED <<lastSequence, bookSequence>>

\* the initial book handed to the constructor: a snapshot, sorted as the
\* data model requires (bids descending, asks ascending, prices unique)
StrictlySorted(levels, sortOrder) ==
    \A i \in 1..(Len(levels) - 1) : Before(levels[i], levels[i + 1], sortOrder)

Snapshots(sortOrder) ==
    {s \in SeqsUpTo({PriceLevel(p, z) : p \in Prices, z \in StoredSizes}, MaxPrice) :
        StrictlySorted(s, sortOrder)}

OptSequences == {None} \cup {Some(n) : n \in 0..MaxSeq}

ObInit ==
    /\ bids \in Snapshots("desc")
    /\ asks \in Snapshots("asc")
    /\ bookSequence \in OptSequences
    /\ lastSequence = bookSequence
    /\ lastUpdate = 0
    /\ inbox = None
    /\ obCall = [op |-> "new"]

ObIdle ==
    /\ bids = <<>>
    /\ asks = <<>>
    /\ bookSequence = None
    /\ lastSequence = None
    /\ lastUpdate = 0
    /\ inbox = None
    /\ obCall = [op |-> "new"]

\* the book updates the feed can deliver (BookUpdate: bids, asks, sequence?)
BookUpdates ==
    {[bids |-> b, asks |-> a, sequence |-> q] :
        b \in SeqsUpTo(UpdateLevels, MaxUpdates),
        a \in SeqsUpTo(UpdateLevels, MaxUpdates),
        q \in OptSequences}

\* the feed delivers a book update while no handler is running
ReceiveBookUpdate ==
    /\ inbox = None
    /\ obCall.op # "applyDelta"
    /\ \E u \in BookUpdates :
        /\ Len(u.bids) + Len(u.asks) <= MaxUpdates
        /\ inbox' = Some(u)
    /\ obCall' = [op |-> "receive"]
    /\ UNCHANGED <<now, bids, asks, bookSequence, lastSequence, lastUpdate>>
    /\ OnlyBook

\* the update handler hands the delivered update to applyDelta
ApplyDelta ==
    /\ inbox # None
    /\ applyDelta(ValueOf(inbox).bids, ValueOf(inbox).asks, ValueOf(inbox).sequence)
    /\ inbox' = None
    /\ UNCHANGED now
    /\ OnlyBook

\* the update handler returns
ReturnFromUpdate ==
    /\ obCall.op = "applyDelta"
    /\ obCall' = [op |-> "returned"]
    /\ UNCHANGED <<now, bids, asks, bookSequence, lastSequence, lastUpdate, inbox>>
    /\ OnlyBook

\* time passes between two calls
TickBook ==
    /\ now < BookMaxTime
    /\ now' = now + 1
    /\ UNCHANGED obVars
    /\ OnlyBook

(***************************************************************************)
(* RiskManager and RiskGate                                                *)
(***************************************************************************)
Tokens == {"t1", "t2"}
Markets == {"m1"}
PositionKeys == Markets \X Tokens
PositionSizes == (0 - MaxPosition)..MaxPosition

Abs(x) == IF x < 0 THEN 0 - x ELSE x

\* a UTC day, and the clock at construction: the last millisecond of a day
DayMs == 24 * 60 * 60 * 1000
StartTime == DayMs - 1
UtcDay(t) == t \div DayMs

windowMs == 1000

\* the signals of the strategies: marketId is optional, size is positive
Signals ==
    [marketId : {None} \cup {Some(m) : m \in Markets},
     tokenId : Tokens,
     side : {"buy", "sell"},
     size : 1..MaxSignalSize]

RECURSIVE SumOver(_, _)
SumOver(f, keys) ==
    IF keys = {} THEN 0
    ELSE LET k == CHOOSE x \in keys : TRUE
         IN  f[k] + SumOver(f, keys \ {k})

checkKillSwitch == killSwitchFile

\* RiskCheckResult.allowed of each check of the risk manager
checkDailyLoss ==
    ~(dailyPnl < 0 /\ Abs(dailyPnl) >= rmConfig.MAX_DAILY_LOSS)

checkPositionLimit(currentPosition, newSize) ==
    LET totalSize == Abs((IF IsSome(currentPosition) THEN ValueOf(currentPosition) ELSE 0)
                         + newSize)
    IN  ~(totalSize > rmConfig.MAX_POSITION_PER_MARKET)

grossExposure(currentPositions) ==
    SumOver([k \in DOMAIN currentPositions |-> Abs(currentPositions[k])],
            DOMAIN currentPositions)

\* a gross check that trips already at the limit
checkGrossExposureAtLimit(currentPositions) ==
    ~(grossExposure(currentPositions) >= rmConfig.MAX_GROSS_EXPOSURE)

checkGrossExposure(currentPositions) ==
    ~(grossExposure(currentPositions) > rmConfig.MAX_GROSS_EXPOSURE)

netExposure(currentPositions) == SumOver(currentPositions, DOMAIN currentPositions)

\* checkOrderRate: the window is restarted when more than windowMs elapsed
\* since its start, then the count is compared and, when allowed, incremented
OrderWindowElapsed == (now - orderWindowStart) > windowMs
OrderCountInWindow == IF OrderWindowElapsed THEN 0 ELSE orderCount
OrderRateAllowed == ~(OrderCountInWindow >= rmConfig.MAX_ORDER_RATE_PER_SECOND)

\* an order-rate check that counts the evaluations it refuses too
checkOrderRateCountsRefused ==
    /\ orderWindowStart' = IF OrderWindowElapsed THEN now ELSE orderWindowStart
    /\ orderCount' = OrderCountInWindow + 1

checkOrderRate ==
    /\ orderWindowStart' = IF OrderWindowElapsed THEN now ELSE orderWindowStart
    /\ orderCount' = IF OrderRateAllowed THEN OrderCountInWindow + 1
                     ELSE OrderCountInWindow

\* `${signal.marketId || 'unknown'}-${signal.tokenId}`
positionKey(signal) ==
    <<IF IsSome(signal.marketId) THEN ValueOf(signal.marketId) ELSE "unknown",
      signal.tokenId>>

\* currentPositions.get(positionKey)
currentPositionOf(signal) ==
    IF positionKey(signal) \in DOMAIN positions
    THEN Some(positions[positionKey(signal)])
    ELSE None

\* a stale check that trips already at staleFeedMs
StaleFeedAtLimit(signal) ==
    LET lastSeen == lastPriceUpdate[signal.tokenId]
    IN  /\ IsSome(lastSeen)
        /\ ValueOf(lastSeen) # 0
        /\ now - ValueOf(lastSeen) >= rgConfig.staleFeedMs

\* lastUpdate && Date.now() - lastUpdate > staleFeedMs
StaleFeed(signal) ==
    LET lastSeen == lastPriceUpdate[signal.tokenId]
    IN  /\ IsSome(lastSeen)
        /\ ValueOf(lastSeen) # 0
        /\ now - ValueOf(lastSeen) > rgConfig.staleFeedMs

Gated(signal, reason) ==
    [op |-> "gateSignal", signal |-> signal, gated |-> TRUE, gateReasons |-> <<reason>>]

RateUntouched == UNCHANGED <<orderCount, orderWindowStart>>

\* a gate that looks at the position limit before the daily loss
gateSignalPositionFirst(signal) ==
    /\ IF checkKillSwitch
       THEN gateCall' = Gated(signal, "Kill switch active") /\ RateUntouched
       ELSE IF ~checkPositionLimit(currentPositionOf(signal), signal.size)
       THEN gateCall' = Gated(signal, "Position limit exceeded") /\ RateUntouched
       ELSE IF ~checkDailyLoss
       THEN gateCall' = Gated(signal, "Daily loss limit reached") /\ RateUntouched
       ELSE IF ~checkGrossExposure(positions)
       THEN gateCall' = Gated(signal, "Gross exposure limit exceeded") /\ RateUntouched
       ELSE IF Abs(netExposure(positions)) > rgConfig.maxNetExposure
       THEN gateCall' = Gated(signal, "Net exposure limit") /\ RateUntouched
       ELSE /\ checkOrderRate
            /\ IF ~OrderRateAllowed
               THEN gateCall' = Gated(signal, "Order rate limit exceeded")
               ELSE IF StaleFeed(signal)
               THEN gateCall' = Gated(signal, "Stale price feed")
               ELSE gateCall' = [op |-> "gateSignal", signal |-> signal,
                                 gated |-> FALSE, gateReasons |-> <<>>]
    /\ UNCHANGED <<killSwitchFile, rmConfig, dailyPnl, dailyStartTime, rgConfig,
                   lastPriceUpdate, positions, balance>>

gateSignal(signal) ==
    /\ IF checkKillSwitch
       THEN gateCall' = Gated(signal, "Kill switch active") /\ RateUntouched
       ELSE IF ~checkDailyLoss
       THEN gateCall' = Gated(signal, "Daily loss limit reached") /\ RateUntouched
       ELSE IF ~checkPositionLimit(currentPositionOf(signal), signal.size)
       THEN gateCall' = Gated(signal, "Position limit exceeded") /\ RateUntouched
       ELSE IF ~checkGrossExposure(positions)
       THEN gateCall' = Gated(signal, "Gross exposure limit exceeded") /\ RateUntouched
       ELSE IF Abs(netExposure(positions)) > rgConfig.maxNetExposure
       THEN gateCall' = Gated(signal, "Net exposure limit") /\ RateUntouched
       ELSE /\ checkOrderRate
            /\ IF ~OrderRateAllowed
               THEN gateCall' = Gated(signal, "Order rate limit exceeded")
               ELSE IF StaleFeed(signal)
               THEN gateCall' = Gated(signal, "Stale price feed")
               ELSE gateCall' = [op |-> "gateSignal", signal |-> signal,
                                 gated |-> FALSE, gateReasons |-> <<>>]
    /\ UNCHANGED <<killSwitchFile, rmConfig, dailyPnl, dailyStartTime, rgConfig,
                   lastPriceUpdate, positions, balance>>

updatePriceFeed(tokenId) ==
    /\ lastPriceUpdate' = [lastPriceUpdate EXCEPT ![tokenId] = Some(now)]
    /\ UNCHANGED <<rmVars, rgConfig, positions, balance, gateCall>>

updateDailyPnl(pnl) ==
    /\ dailyPnl' = dailyPnl + pnl
    /\ UNCHANGED <<killSwitchFile, rmConfig, dailyStartTime, orderCount,
                   orderWindowStart, rgVars>>

\* the limits of the environment
RmConfigs ==
    {[MAX_POSITION_PER_MARKET |-> 3, MAX_DAILY_LOSS |-> 2,
      MAX_ORDER_RATE_PER_SECOND |-> 2, MAX_GROSS_EXPOSURE |-> 3]}

\* the limits handed to new RiskGate(...), the position limit the same as
\* the environment's (both default to 1000)
RgConfigs ==
    {[maxPositionPerToken |-> 3, maxGrossExposure |-> 2, maxNetExposure |-> 2,
      maxDailyLoss |-> 1, staleFeedMs |-> 1000]}

\* new RiskManager(), whose constructor runs resetDailyMetrics, then
\* new RiskGate(riskManager, config)
GateInit ==
    /\ killSwitchFile = FALSE
    /\ rmConfig \in RmConfigs
    /\ dailyPnl = 0
    /\ dailyStartTime = now
    /\ orderCount = 0
    /\ orderWindowStart = now
    /\ rgConfig \in RgConfigs
    /\ lastPriceUpdate = [t \in Tokens |-> None]
    /\ positions = [k \in PositionKeys |-> 0]
    /\ balance = 0
    /\ gateCall = [op |-> "idle"]
    /\ pnlToday = 0
    /\ ratePasses = <<>>

GateIdle ==
    /\ killSwitchFile = FALSE
    /\ rmConfig = [MAX_POSITION_PER_MARKET |-> 3, MAX_DAILY_LOSS |-> 2,
                   MAX_ORDER_RATE_PER_SECOND |-> 2, MAX_GROSS_EXPOSURE |-> 3]
    /\ dailyPnl = 0
    /\ dailyStartTime = 0
    /\ orderCount = 0
    /\ orderWindowStart = 0
    /\ rgConfig = [maxPositionPerToken |-> 3, maxGrossExposure |-> 3, maxNetExposure |-> 2,
                   maxDailyLoss |-> 2, staleFeedMs |-> 1000]
    /\ lastPriceUpdate = [t \in Tokens |-> None]
    /\ positions = [k \in PositionKeys |-> 0]
    /\ balance = 0
    /\ gateCall = [op |-> "idle"]
    /\ pnlToday = 0
    /\ ratePasses = <<>>

Idle == gateCall.op # "gateSignal"

\* the evaluation reached the order-rate check and passed it
PassedOrderRate(call) ==
    /\ call.op = "gateSignal"
    /\ \/ ~call.gated
       \/ call.gateReasons = <<"Stale price feed">>

GateSignal ==
    /\ Idle
    /\ \E signal \in Signals : gateSignal(signal)
    /\ UNCHANGED <<now, histVars>>
    /\ OnlyGate

\* gateSignal, with the time of each pass of the order-rate check recorded
GateSignalRecorded ==
    /\ Idle
    /\ \E signal \in Signals : gateSignal(signal)
    /\ ratePasses' = IF PassedOrderRate(gateCall') THEN Append(ratePasses, now)
                     ELSE ratePasses
    /\ UNCHANGED <<now, pnlToday>>
    /\ OnlyGate

\* gateSignal returns its decision to the caller
ReturnFromGate ==
    /\ gateCall.op = "gateSignal"
    /\ gateCall' = [op |-> "idle"]
    /\ UNCHANGED <<now, rmVars, rgConfig, lastPriceUpdate, positions, balance, histVars>>
    /\ OnlyGate

UpdatePriceFeed ==
    /\ Idle
    /\ \E tokenId \in Tokens : updatePriceFeed(tokenId)
    /\ UNCHANGED <<now, histVars>>
    /\ OnlyGate

UpdateDailyPnl ==
    /\ Idle
    /\ \E pnl \in {-1, 1} :
        /\ dailyPnl + pnl \in (0 - MaxLoss)..0
        /\ updateDailyPnl(pnl)
    /\ UNCHANGED <<now, histVars>>
    /\ OnlyGate

\* updateDailyPnl, with the PnL of the current UTC day recorded
UpdateDailyPnlRecorded ==
    /\ Idle
    /\ \E pnl \in {-1, 1} :
        /\ dailyPnl + pnl \in (0 - MaxLoss)..0
        /\ updateDailyPnl(pnl)
        /\ pnlToday' = pnlToday + pnl
    /\ UNCHANGED <<now, ratePasses>>
    /\ OnlyGate

\* the operator creates or removes kill-switch.flag
SetKillSwitch ==
    /\ Idle
    /\ killSwitchFile' = ~killSwitchFile
    /\ UNCHANGED <<now, rmConfig, dailyPnl, dailyStartTime, orderCount, orderWindowStart,
                   rgVars, histVars>>
    /\ OnlyGate

\* a fill changes the position the caller holds in one market and token
SetPosition ==
    /\ Idle
    /\ \E k \in PositionKeys, size \in PositionSizes :
        /\ size # positions[k]
        /\ positions' = [positions EXCEPT ![k] = size]
    /\ UNCHANGED <<now, rmVars, rgConfig, lastPriceUpdate, balance, gateCall, histVars>>
    /\ OnlyGate

\* the instants at which the clock is read: the start and the first
\* millisecond of each rate window after construction
ClockReadings ==
    {StartTime + k * windowMs + e : k \in 0..MaxWindows, e \in 0..1}

\* time passes
TickGate ==
    /\ Idle
    /\ \E t \in ClockReadings :
        /\ t > now
        /\ now' = t
    /\ UNCHANGED gateVars
    /\ OnlyGate

\* time passes; a new UTC day starts with no PnL recorded in it
TickDay ==
    /\ Idle
    /\ \E t \in ClockReadings :
        /\ t > now
        /\ now' = t
        /\ pnlToday' = IF UtcDay(t) = UtcDay(now) THEN pnlToday ELSE 0
    /\ UNCHANGED <<rmVars, rgVars, ratePasses>>
    /\ OnlyGate

\* time passes; the passes older than one second are forgotten
TickRecorded ==
    /\ Idle
    /\ \E t \in ClockReadings :
        /\ t > now
        /\ now' = t
        /\ ratePasses' = SelectSeq(ratePasses, LAMBDA pass : t - pass < windowMs)
    /\ UNCHANGED <<rmVars, rgVars, pnlToday>>
    /\ OnlyGate

(***************************************************************************)
(* PaperExecutionSim                                                       *)
(*                                                                         *)
(* Prices and sizes are integers; the mid price is kept doubled (best bid  *)
(* plus best ask), so slippage and spreadPaid are in half price units; a   *)
(* rate is in percent, so a fee is in hundredths.  The id (randomUUID) and *)
(* the timestamp of a fill are left out.                                   *)
(***************************************************************************)
Instances == {1, 2}
OrderIds == {"o1", "o2"}
SimTokens == {"t1"}
LimitPrices == 1..MaxLimitPrice
OrderSizes == 1..MaxOrderSize

OrderIntents ==
    [id : OrderIds, tokenId : SimTokens, side : {"buy", "sell"},
     price : LimitPrices, size : OrderSizes, type : {"limit", "market"}]

\* the books handed to processMarketUpdate: at most one level a side
SimBooks ==
    [bids : {<<>>} \cup {<<PriceLevel(p, z)>> : p \in LimitPrices, z \in OrderSizes},
     asks : {<<>>} \cup {<<PriceLevel(p + 1, z)>> : p \in LimitPrices, z \in OrderSizes}]

\* the optional trade print
TradePrints == {None} \cup {Some([price |-> p]) : p \in 1..(MaxLimitPrice + 1)}

\* calculateMidPrice, doubled: null when a side is empty
calculateMidPrice2(book) ==
    IF book.bids = <<>> \/ book.asks = <<>> THEN None
    ELSE Some(book.bids[1].price + book.asks[1].price)

Min(a, b) == IF a <= b THEN a ELSE b

\* a fill that reports its slippage as the spread paid
createFillSpreadAsSlippage(order, price, size, slippage2, spreadPaid2) ==
    [orderId |-> order.id, tokenId |-> order.tokenId, side |-> order.side,
     price |-> price, size |-> size,
     slippage |-> Abs(slippage2), spreadPaid |-> Abs(slippage2),
     fee |-> price * size * simConfig.feeRate]

\* a fill that keeps the sign of its slippage and of its spread paid
createFillSigned(order, price, size, slippage2, spreadPaid2) ==
    [orderId |-> order.id, tokenId |-> order.tokenId, side |-> order.side,
     price |-> price, size |-> size,
     slippage |-> slippage2, spreadPaid |-> spreadPaid2,
     fee |-> price * size * simConfig.feeRate]

createFill(order, price, size, slippage2, spreadPaid2) ==
    [orderId |-> order.id, tokenId |-> order.tokenId, side |-> order.side,
     price |-> price, size |-> size,
     slippage |-> Abs(slippage2), spreadPaid |-> Abs(spreadPaid2),
     fee |-> price * size * simConfig.feeRate]

\* a market fill that takes the whole order whatever the level holds
fillMarketOrderWholeSize(order, book) ==
    IF order.side = "buy"
    THEN IF book.asks = <<>> THEN None
         ELSE Some(createFill(order, book.asks[1].price, order.size, 0, 0))
    ELSE IF book.bids = <<>> THEN None
         ELSE Some(createFill(order, book.bids[1].price, order.size, 0, 0))

\* a market fill that takes the whole level whatever the order still needs
fillMarketOrderWholeLevel(order, book) ==
    IF order.side = "buy"
    THEN IF book.asks = <<>> THEN None
         ELSE Some(createFill(order, book.asks[1].price, book.asks[1].size, 0, 0))
    ELSE IF book.bids = <<>> THEN None
         ELSE Some(createFill(order, book.bids[1].price, book.bids[1].size, 0, 0))

\* a market fill that serves the buy side only
fillMarketOrderBuysOnly(order, book) ==
    IF order.side = "buy" /\ book.asks # <<>>
    THEN Some(createFill(order, book.asks[1].price, Min(order.size, book.asks[1].size), 0, 0))
    ELSE None

fillMarketOrder(order, book) ==
    LET midPrice2 == calculateMidPrice2(book)
    IN  IF order.side = "buy"
        THEN IF book.asks = <<>> THEN None
             ELSE LET bestAsk == book.asks[1]
                      fillSize == Min(order.size, bestAsk.size)
                      slippage2 == IF IsSome(midPrice2)
                                   THEN 2 * bestAsk.price - ValueOf(midPrice2) ELSE 0
                  IN  Some(createFill(order, bestAsk.price, fillSize, slippage2, slippage2))
        ELSE IF book.bids = <<>> THEN None
             ELSE LET bestBid == book.bids[1]
                      fillSize == Min(order.size, bestBid.size)
                      slippage2 == IF IsSome(midPrice2)
                                   THEN ValueOf(midPrice2) - 2 * bestBid.price ELSE 0
                  IN  Some(createFill(order, bestBid.price, fillSize, slippage2, slippage2))

\* a limit fill that takes any trade print as having reached the limit
fillLimitOrderAnyTrade(order, book, trade, draw) ==
    LET midPrice2 == calculateMidPrice2(book)
        crossesBuy == order.side = "buy" /\ book.asks # <<>>
                      /\ order.price >= book.asks[1].price
        crossesSell == order.side = "sell" /\ book.bids # <<>>
                       /\ order.price <= book.bids[1].price
        wouldFill == IF order.side = "buy"
                     THEN ValueOf(trade).price <= order.price
                     ELSE ValueOf(trade).price >= order.price
    IN  IF ~IsSome(midPrice2) THEN None
        ELSE IF crossesBuy
        THEN LET bestAsk == book.asks[1]
                 slippage2 == 2 * bestAsk.price - ValueOf(midPrice2)
             IN  Some(createFill(order, bestAsk.price, Min(order.size, bestAsk.size),
                                 slippage2, slippage2))
        ELSE IF crossesSell
        THEN LET bestBid == book.bids[1]
                 slippage2 == ValueOf(midPrice2) - 2 * bestBid.price
             IN  Some(createFill(order, bestBid.price, Min(order.size, bestBid.size),
                                 slippage2, slippage2))
        ELSE IF IsSome(trade) /\ draw
        THEN Some(createFill(order, order.price, order.size,
                             IF order.side = "buy"
                             THEN 2 * order.price - ValueOf(midPrice2)
                             ELSE ValueOf(midPrice2) - 2 * order.price,
                             0))
        ELSE None

\* draw: whether Math.random() < fillProbability came out true
fillLimitOrder(order, book, trade, draw) ==
    LET midPrice2 == calculateMidPrice2(book)
        crossesBuy == order.side = "buy" /\ book.asks # <<>>
                      /\ order.price >= book.asks[1].price
        crossesSell == order.side = "sell" /\ book.bids # <<>>
                       /\ order.price <= book.bids[1].price
        wouldFill == IF order.side = "buy"
                     THEN ValueOf(trade).price <= order.price
                     ELSE ValueOf(trade).price >= order.price
    IN  IF ~IsSome(midPrice2) THEN None
        ELSE IF crossesBuy
        THEN LET bestAsk == book.asks[1]
                 slippage2 == 2 * bestAsk.price - ValueOf(midPrice2)
             IN  Some(createFill(order, bestAsk.price, Min(order.size, bestAsk.size),
                                 slippage2, slippage2))
        ELSE IF crossesSell
        THEN LET bestBid == book.bids[1]
                 slippage2 == ValueOf(midPrice2) - 2 * bestBid.price
             IN  Some(createFill(order, bestBid.price, Min(order.size, bestBid.size),
                                 slippage2, slippage2))
        ELSE IF IsSome(trade) /\ wouldFill /\ draw
        THEN Some(createFill(order, order.price, order.size,
                             IF order.side = "buy"
                             THEN 2 * order.price - ValueOf(midPrice2)
                             ELSE ValueOf(midPrice2) - 2 * order.price,
                             0))
        ELSE None

attemptFill(order, book, trade, draw) ==
    IF order.type = "market" THEN fillMarketOrder(order, book)
    ELSE fillLimitOrder(order, book, trade, draw)

\* whether attemptFill evaluates Math.random() for the order
DrawsFor(order, book, trade) ==
    /\ order.type = "limit"
    /\ fillLimitOrder(order, book, trade, FALSE) = None
    /\ fillLimitOrder(order, book, trade, TRUE) # None

\* the outcomes Math.random() < fillProbability can have
DrawOutcomes ==
    IF simConfig.fillProbability <= 0 THEN {FALSE}
    ELSE IF simConfig.fillProbability >= 100 THEN {TRUE}
    ELSE BOOLEAN

\* a loop that reports the fills newest order first
RECURSIVE processOrdersNewestFirst(_, _, _, _, _)
processOrdersNewestFirst(orders, tokenId, book, trade, draws) ==
    IF orders = <<>> THEN [open |-> <<>>, newFills |-> <<>>]
    ELSE LET order == Head(orders)
             rest == processOrdersNewestFirst(Tail(orders), tokenId, book, trade, draws)
             fill == attemptFill(order, book, trade, draws[order.id])
         IN  IF order.tokenId # tokenId \/ fill = None
             THEN [open |-> <<order>> \o rest.open, newFills |-> rest.newFills]
             ELSE LET remainingSize == order.size - ValueOf(fill).size
                  IN  [open |-> IF remainingSize <= 0 THEN rest.open
                                ELSE <<[order EXCEPT !.size = remainingSize]>> \o rest.open,
                       newFills |-> rest.newFills \o <<ValueOf(fill)>>]

\* the loop of processMarketUpdate over the open orders, in insertion order:
\* the orders that stay open (a partly filled one with its remaining size)
\* and the fills, draws giving the outcome of the draw of each order
RECURSIVE processOrders(_, _, _, _, _)
processOrders(orders, tokenId, book, trade, draws) ==
    IF orders = <<>> THEN [open |-> <<>>, newFills |-> <<>>]
    ELSE LET order == Head(orders)
             rest == processOrders(Tail(orders), tokenId, book, trade, draws)
             fill == attemptFill(order, book, trade, draws[order.id])
         IN  IF order.tokenId # tokenId \/ fill = None
             THEN [open |-> <<order>> \o rest.open, newFills |-> rest.newFills]
             ELSE LET remainingSize == order.size - ValueOf(fill).size
                  IN  [open |-> IF remainingSize <= 0 THEN rest.open
                                ELSE <<[order EXCEPT !.size = remainingSize]>> \o rest.open,
                       newFills |-> <<ValueOf(fill)>> \o rest.newFills]

\* one instance after processMarketUpdate(tokenId, book, trade)
processMarketUpdate(sim, tokenId, book, trade, draws) ==
    LET done == processOrders(sim.openOrders, tokenId, book, trade, draws)
    IN  [openOrders |-> done.open, fills |-> sim.fills \o done.newFills]

\* Map.set(intent.id, intent): a new id is appended, a known id keeps its place
placeOrder(sim, intent) ==
    [sim EXCEPT !.openOrders =
        IF \E i \in 1..Len(@) : @[i].id = intent.id
        THEN [i \in 1..Len(@) |-> IF @[i].id = intent.id THEN intent ELSE @[i]]
        ELSE Append(@, intent)]

\* Map.delete(orderId)
cancelOrder(sim, orderId) ==
    [sim EXCEPT !.openOrders = SelectSeq(@, LAMBDA o : o.id # orderId)]

SimConfigs == {[feeRate |-> 2, fillProbability |-> 50]}

\* two simulators constructed with the same config
SimInit ==
    /\ simConfig \in SimConfigs
    /\ sims = [i \in Instances |-> [openOrders |-> <<>>, fills |-> <<>>]]

SimIdle ==
    /\ simConfig = [feeRate |-> 2, fillProbability |-> 50]
    /\ sims = [i \in Instances |-> [openOrders |-> <<>>, fills |-> <<>>]]

\* the calls stop once a simulator holds MaxFills fills
FillsBelowBound == \A i \in Instances : Len(sims[i].fills) < MaxFills

\* the same call is made on both simulators
PlaceOrder ==
    /\ FillsBelowBound
    /\ \E intent \in OrderIntents :
        sims' = [i \in Instances |-> placeOrder(sims[i], intent)]
    /\ UNCHANGED <<now, simConfig>>
    /\ OnlySim

CancelOrder ==
    /\ FillsBelowBound
    /\ \E orderId \in OrderIds :
        /\ \E i \in Instances :
              \E k \in 1..Len(sims[i].openOrders) : sims[i].openOrders[k].id = orderId
        /\ sims' = [i \in Instances |-> cancelOrder(sims[i], orderId)]
    /\ UNCHANGED <<now, simConfig>>
    /\ OnlySim

\* the same update is processed by both simulators, each drawing its own
\* random numbers
ProcessMarketUpdate ==
    /\ FillsBelowBound
    /\ \E tokenId \in SimTokens, book \in SimBooks, trade \in TradePrints :
        \E draws \in [Instances -> [OrderIds -> DrawOutcomes]] :
            /\ \A i \in Instances, id \in OrderIds :
                  (\E k \in 1..Len(sims[i].openOrders) :
                      /\ sims[i].openOrders[k].id = id
                      /\ sims[i].openOrders[k].tokenId = tokenId
                      /\ DrawsFor(sims[i].openOrders[k], book, trade))
                  \/ ~draws[i][id]
            /\ sims' = [i \in Instances |->
                           processMarketUpdate(sims[i], tokenId, book, trade, draws[i])]
    /\ UNCHANGED <<now, simConfig>>
    /\ OnlySim

(***************************************************************************)
(* One PaperExecutionSim, its calls recorded                               *)
(***************************************************************************)
\* the first simulator, the one the recorded calls are made on
sim == sims[1]

OpenIds(s) == {s.openOrders[k].id : k \in 1..Len(s.openOrders)}

\* the intents placed on the recorded simulator, over two tokens
TokenIntents ==
    [id : OrderIds, tokenId : Tokens, side : {"buy", "sell"},
     price : LimitPrices, size : OrderSizes, type : {"limit", "market"}]

LedgerIdle == ledger = <<>>

\* the components of the bot application, before any of them is constructed
AppIdle == bot = <<>> /\ ingest = <<>> /\ limiter = <<>> /\ wsc = <<>>

SimCallIdle ==
    /\ simCall = [op |-> "idle"]
    /\ closedIds = {}

SimReady == simCall.op = "idle" /\ Len(sim.fills) < MaxFills

\* draws gives an outcome for the orders whose attempt evaluates
\* Math.random(), and FALSE for the others
DrawsPossible(s, tokenId, book, trade, draws) ==
    \A id \in OrderIds :
        (\E k \in 1..Len(s.openOrders) :
            /\ s.openOrders[k].id = id
            /\ s.openOrders[k].tokenId = tokenId
            /\ DrawsFor(s.openOrders[k], book, trade))
        \/ ~draws[id]

PlaceOrderCall ==
    /\ SimReady
    /\ \E intent \in TokenIntents :
        /\ sims' = [sims EXCEPT ![1] = placeOrder(sim, intent)]
        /\ simCall' = [op |-> "placeOrder", intent |-> intent]
    /\ UNCHANGED <<now, simConfig, closedIds>>
    /\ OnlySimCall

\* cancelOrder returns whether the id was open
CancelOrderCall ==
    /\ SimReady
    /\ \E orderId \in OrderIds :
        /\ sims' = [sims EXCEPT ![1] = cancelOrder(sim, orderId)]
        /\ simCall' = [op |-> "cancelOrder", orderId |-> orderId,
                       result |-> orderId \in OpenIds(sim)]
    /\ UNCHANGED <<now, simConfig, closedIds>>
    /\ OnlySimCall

\* processMarketUpdate returns the fills it appended
ProcessMarketUpdateCall ==
    /\ SimReady
    /\ \E tokenId \in Tokens, book \in SimBooks, trade \in TradePrints :
        \E draws \in [OrderIds -> DrawOutcomes] :
            /\ DrawsPossible(sim, tokenId, book, trade, draws)
            /\ LET after == processMarketUpdate(sim, tokenId, book, trade, draws)
               IN  /\ sims' = [sims EXCEPT ![1] = after]
                   /\ simCall' = [op |-> "processMarketUpdate", tokenId |-> tokenId,
                                  book |-> book, trade |-> trade,
                                  newFills |-> SubSeq(after.fills, Len(sim.fills) + 1,
                                                      Len(after.fills))]
    /\ UNCHANGED <<now, simConfig, closedIds>>
    /\ OnlySimCall

\* the same three calls, the ids that leave the open table remembered
PlaceOrderTracked ==
    /\ SimReady
    /\ \E intent \in OrderIntents :
        sims' = [sims EXCEPT ![1] = placeOrder(sim, intent)]
    /\ UNCHANGED <<now, simConfig, simCall, closedIds>>
    /\ OnlySimCall

CancelOrderTracked ==
    /\ SimReady
    /\ \E orderId \in OrderIds :
        /\ sims' = [sims EXCEPT ![1] = cancelOrder(sim, orderId)]
        /\ closedIds' = closedIds \cup ({orderId} \cap OpenIds(sim))
    /\ UNCHANGED <<now, simConfig, simCall>>
    /\ OnlySimCall

ProcessMarketUpdateTracked ==
    /\ SimReady
    /\ \E tokenId \in SimTokens, book \in SimBooks, trade \in TradePrints :
        \E draws \in [OrderIds -> DrawOutcomes] :
            /\ DrawsPossible(sim, tokenId, book, trade, draws)
            /\ LET after == processMarketUpdate(sim, tokenId, book, trade, draws)
               IN  /\ sims' = [sims EXCEPT ![1] = after]
                   /\ closedIds' = closedIds \cup (OpenIds(sim) \ OpenIds(after))
    /\ UNCHANGED <<now, simConfig, simCall>>
    /\ OnlySimCall

ReturnFromSim ==
    /\ simCall.op # "idle"
    /\ simCall' = [op |-> "idle"]
    /\ UNCHANGED <<now, simVars, closedIds>>
    /\ OnlySimCall

(***************************************************************************)
(* The first simulator with a ledger of its orders                         *)
(*                                                                         *)
(* The ledger remembers, for each order id, the size of the intent last    *)
(* placed under it, whether that order was cancelled, and the fills        *)
(* recorded for it since: the size of each and the size the order had in   *)
(* the open table when the fill was attempted.                             *)
(***************************************************************************)
MaxLedgerFills == 2

LedgerInit ==
    ledger = [id \in OrderIds |-> [placed |-> 0, cancelled |-> FALSE, filled |-> <<>>]]

\* order.size of the open order with the id, 0 when the id is not open
SizeOpen(s, id) ==
    IF \E k \in 1..Len(s.openOrders) : s.openOrders[k].id = id
    THEN (CHOOSE o \in {s.openOrders[k] : k \in 1..Len(s.openOrders)} : o.id = id).size
    ELSE 0

\* the ledger after the fills of one processMarketUpdate call on s
RECURSIVE ledgerAfter(_, _, _)
ledgerAfter(led, s, newFills) ==
    IF newFills = <<>> THEN led
    ELSE LET fill == Head(newFills)
         IN  ledgerAfter([led EXCEPT ![fill.orderId].filled =
                             Append(@, [remaining |-> SizeOpen(s, fill.orderId),
                                        size |-> fill.size])],
                         s, Tail(newFills))

LedgerReady == Len(sim.fills) < MaxLedgerFills

\* the intents placed on the simulator with the ledger: a limit at this
\* price crosses some of SimBooks and rests inside the others
LedgerIntents == {intent \in OrderIntents : intent.price = MaxLimitPrice}

PlaceOrderLedger ==
    /\ LedgerReady
    /\ \E intent \in LedgerIntents :
        /\ sims' = [sims EXCEPT ![1] = placeOrder(sim, intent)]
        /\ ledger' = [ledger EXCEPT ![intent.id] =
                         [placed |-> intent.size, cancelled |-> FALSE, filled |-> <<>>]]
    /\ UNCHANGED <<now, simConfig, simCallVars>>
    /\ UNCHANGED <<obVars, gateVars, cbVars, sizingVars, storeVars, runnerVars, appVars>>

CancelOrderLedger ==
    /\ LedgerReady
    /\ \E orderId \in OrderIds :
        /\ sims' = [sims EXCEPT ![1] = cancelOrder(sim, orderId)]
        /\ ledger' = IF orderId \in OpenIds(sim)
                     THEN [ledger EXCEPT ![orderId].cancelled = TRUE]
                     ELSE ledger
    /\ UNCHANGED <<now, simConfig, simCallVars>>
    /\ UNCHANGED <<obVars, gateVars, cbVars, sizingVars, storeVars, runnerVars, appVars>>

ProcessMarketUpdateLedger ==
    /\ LedgerReady
    /\ \E tokenId \in SimTokens, book \in SimBooks, trade \in TradePrints :
        \E draws \in [OrderIds -> DrawOutcomes] :
            /\ DrawsPossible(sim, tokenId, book, trade, draws)
            /\ LET after == processMarketUpdate(sim, tokenId, book, trade, draws)
               IN  /\ sims' = [sims EXCEPT ![1] = after]
                   /\ ledger' = ledgerAfter(ledger, sim,
                                            SubSeq(after.fills, Len(sim.fills) + 1,
                                                   Len(after.fills)))
    /\ UNCHANGED <<now, simConfig, simCallVars>>
    /\ UNCHANGED <<obVars, gateVars, cbVars, sizingVars, storeVars, runnerVars, appVars>>

\* a market order placed under an id never used before
PlaceMarketOrderOnce ==
    /\ \E intent \in LedgerIntents :
        /\ intent.type = "market"
        /\ ledger[intent.id].placed = 0
        /\ sims' = [sims EXCEPT ![1] = placeOrder(sim, intent)]
        /\ ledger' = [ledger EXCEPT ![intent.id] =
                         [placed |-> intent.size, cancelled |-> FALSE, filled |-> <<>>]]
    /\ UNCHANGED <<now, simConfig, simCallVars>>
    /\ UNCHANGED <<obVars, gateVars, cbVars, sizingVars, storeVars, runnerVars, appVars>>

\* the side of the book an order of the side fills against
Opposing(side, book) == IF side = "buy" THEN book.asks ELSE book.bids

\* no order of the table makes attemptFill evaluate Math.random()
NoDraws == [id \in OrderIds |-> FALSE]

\* processMarketUpdate with a book in Books and no trade print, which a
\* market order does not look at
ProcessWith(Books) ==
    /\ \E tokenId \in SimTokens, book \in Books :
        /\ DrawsPossible(sim, tokenId, book, None, NoDraws)
        /\ LET after == processMarketUpdate(sim, tokenId, book, None, NoDraws)
           IN  /\ sims' = [sims EXCEPT ![1] = after]
               /\ ledger' = ledgerAfter(ledger, sim,
                                        SubSeq(after.fills, Len(sim.fills) + 1,
                                               Len(after.fills)))
    /\ UNCHANGED <<now, simConfig, simCallVars>>
    /\ UNCHANGED <<obVars, gateVars, cbVars, sizingVars, storeVars, runnerVars, appVars>>

\* the books of these calls: a side is empty or has its level at one price
FairBooks ==
    {book \in SimBooks : /\ book.bids # <<>> => book.bids[1].price = 1
                         /\ book.asks # <<>> => book.asks[1].price = 2}

ProcessMarketUpdateFair == ProcessWith(FairBooks)

\* a call whose book has a level of positive size on the side opposing side
ProcessOpposing(side) == ProcessWith({book \in FairBooks : Opposing(side, book) # <<>>})

(***************************************************************************)
(* RiskManager: circuit breakers                                           *)
(***************************************************************************)
errorWindowMs == 60000

\* the clock readings around the start and the end of an error window
BreakerClock == {StartTime + k : k \in {0, 1, errorWindowMs, errorWindowMs + 1}}

\* a Date | null argument: null or a reading not after the current time
PastDates == {None} \cup {Some(t) : t \in {r \in BreakerClock : r <= now}}

CbConfigs ==
    {[WEBSOCKET_DISCONNECT_TIMEOUT_MS |-> 1, PRICE_FEED_STALE_MS |-> errorWindowMs,
      MAX_ERROR_RATE_PER_MINUTE |-> 2]}

ErrorWindowElapsed == (now - errorWindowStart) > errorWindowMs
ErrorCountInWindow == IF ErrorWindowElapsed THEN 0 ELSE errorCount

CbResult(wsConnected, wsDisconnectTime, priceUpdate, allowed, reason) ==
    [op |-> "checkCircuitBreakers", wsConnected |-> wsConnected,
     wsDisconnectTime |-> wsDisconnectTime, lastPriceUpdate |-> priceUpdate,
     allowed |-> allowed, reason |-> reason]

checkCircuitBreakers(wsConnected, wsDisconnectTime, priceUpdate) ==
    IF /\ ~wsConnected
       /\ IsSome(wsDisconnectTime)
       /\ now - ValueOf(wsDisconnectTime) > cbConfig.WEBSOCKET_DISCONNECT_TIMEOUT_MS
    THEN /\ cbCall' = CbResult(wsConnected, wsDisconnectTime, priceUpdate, FALSE,
                               "WebSocket disconnected")
         /\ UNCHANGED <<errorCount, errorWindowStart>>
    ELSE IF /\ IsSome(priceUpdate)
            /\ now - ValueOf(priceUpdate) > cbConfig.PRICE_FEED_STALE_MS
    THEN /\ cbCall' = CbResult(wsConnected, wsDisconnectTime, priceUpdate, FALSE,
                               "Price feed stale")
         /\ UNCHANGED <<errorCount, errorWindowStart>>
    ELSE /\ errorCount' = ErrorCountInWindow
         /\ errorWindowStart' = IF ErrorWindowElapsed THEN now ELSE errorWindowStart
         /\ cbCall' = IF ErrorCountInWindow >= cbConfig.MAX_ERROR_RATE_PER_MINUTE
                      THEN CbResult(wsConnected, wsDisconnectTime, priceUpdate, FALSE,
                                    "Error rate too high")
                      ELSE CbResult(wsConnected, wsDisconnectTime, priceUpdate, TRUE, "")

recordError == errorCount' = errorCount + 1

\* the error fields of a new RiskManager
BreakersInit ==
    /\ cbConfig \in CbConfigs
    /\ errorCount = 0
    /\ errorWindowStart = now
    /\ cbCall = [op |-> "idle"]
    /\ errorTimes = <<>>

BreakersIdle ==
    /\ cbConfig = [WEBSOCKET_DISCONNECT_TIMEOUT_MS |-> 1,
                   PRICE_FEED_STALE_MS |-> errorWindowMs,
                   MAX_ERROR_RATE_PER_MINUTE |-> 2]
    /\ errorCount = 0
    /\ errorWindowStart = 0
    /\ cbCall = [op |-> "idle"]
    /\ errorTimes = <<>>

CheckCircuitBreakers ==
    /\ \E wsConnected \in BOOLEAN, wsDisconnectTime \in PastDates, priceUpdate \in PastDates :
          checkCircuitBreakers(wsConnected, wsDisconnectTime, priceUpdate)
    /\ UNCHANGED <<now, cbConfig, errorTimes>>
    /\ OnlyBreakers

RecordError ==
    /\ Len(errorTimes) < MaxErrors
    /\ recordError
    /\ errorTimes' = Append(errorTimes, now)
    /\ UNCHANGED <<now, cbConfig, errorWindowStart, cbCall>>
    /\ OnlyBreakers

TickBreakers ==
    /\ \E t \in BreakerClock : t > now /\ now' = t
    /\ UNCHANGED cbVars
    /\ OnlyBreakers

(***************************************************************************)
(* Position sizing                                                         *)
(*                                                                         *)
(* A Decimal is a fraction <<numerator, denominator>> with a positive      *)
(* denominator; fractions are compared by cross multiplication.            *)
(***************************************************************************)
Whole(n) == <<n, 1>>
RatLe(a, b) == a[1] * b[2] <= b[1] * a[2]
RatEq(a, b) == a[1] * b[2] = b[1] * a[2]
RatMin(a, b) == IF RatLe(a, b) THEN a ELSE b
RatMax(a, b) == IF RatLe(a, b) THEN b ELSE a
RatMinus(a, b) == <<a[1] * b[2] - b[1] * a[2], a[2] * b[2]>>
RatTimes(a, b) == <<a[1] * b[1], a[2] * b[2]>>
RatAbs(a) == <<Abs(a[1]), a[2]>>
\* a.div(b), b not zero
RatDiv(a, b) ==
    IF b[1] > 0 THEN <<a[1] * b[2], a[2] * b[1]>>
    ELSE <<0 - a[1] * b[2], 0 - a[2] * b[1]>>

kellyFraction(winProb, winAmount, lossAmount) ==
    IF RatLe(lossAmount, Whole(0)) \/ RatLe(winAmount, Whole(0)) THEN Whole(0)
    ELSE LET q == RatMinus(Whole(1), winProb)
             b == RatDiv(winAmount, lossAmount)
             kelly == RatMinus(winProb, RatDiv(q, b))
         IN  RatMax(Whole(0), RatMin(Whole(1), kelly))

fixedFractionalSize(accountBalance, riskPerTrade, stopLoss) ==
    IF RatLe(stopLoss, Whole(0)) THEN Whole(0)
    ELSE RatDiv(RatTimes(accountBalance, riskPerTrade), RatAbs(stopLoss))

\* 25% of Kelly, the 5% cap of the default policy, the default riskPerTrade
kellyShare == <<25, 100>>
defaultCap == <<5, 100>>
defaultRiskPerTrade == <<2, 100>>

\* a size that looks at the stop-loss before the Kelly parameters
calculatePositionSizeStopLossFirst(signalSize, accountBalance, riskPerTrade, stopLoss, winProb, winAmount, lossAmount) ==
    LET risk == IF IsSome(riskPerTrade) THEN ValueOf(riskPerTrade) ELSE defaultRiskPerTrade
    IN  IF IsSome(stopLoss)
        THEN RatMin(signalSize, fixedFractionalSize(accountBalance, risk, ValueOf(stopLoss)))
        ELSE IF IsSome(winProb) /\ IsSome(winAmount) /\ IsSome(lossAmount)
        THEN RatMin(signalSize,
                    RatTimes(RatTimes(accountBalance,
                                      kellyFraction(ValueOf(winProb), ValueOf(winAmount),
                                                    ValueOf(lossAmount))),
                             kellyShare))
        ELSE RatMin(signalSize, RatTimes(accountBalance, defaultCap))

calculatePositionSize(signalSize, accountBalance, riskPerTrade, stopLoss, winProb, winAmount, lossAmount) ==
    LET risk == IF IsSome(riskPerTrade) THEN ValueOf(riskPerTrade) ELSE defaultRiskPerTrade
    IN  IF IsSome(winProb) /\ IsSome(winAmount) /\ IsSome(lossAmount)
        THEN RatMin(signalSize,
                    RatTimes(RatTimes(accountBalance,
                                      kellyFraction(ValueOf(winProb), ValueOf(winAmount),
                                                    ValueOf(lossAmount))),
                             kellyShare))
        ELSE IF IsSome(stopLoss)
        THEN RatMin(signalSize, fixedFractionalSize(accountBalance, risk, ValueOf(stopLoss)))
        ELSE RatMin(signalSize, RatTimes(accountBalance, defaultCap))

Optional(S) == {None} \cup {Some(x) : x \in S}

\* the arguments of the calls
SignalSizes == {Whole(1), Whole(5), Whole(100)}
Balances == {Whole(0), Whole(40), Whole(100)}
RiskFractions == {<<1, 10>>}
StopLosses == {Whole(0), <<0 - 1, 2>>, <<1, 2>>, Whole(2)}
WinProbs == {<<1, 4>>, <<3, 4>>}
WinAmounts == {Whole(0), Whole(1), Whole(2)}
LossAmounts == {Whole(0 - 1), Whole(1), Whole(3)}

SizingIdle == sizeCall = [op |-> "idle"]

CalculatePositionSize ==
    /\ sizeCall.op = "idle"
    /\ \E signalSize \in SignalSizes, accountBalance \in Balances,
          riskPerTrade \in Optional(RiskFractions), stopLoss \in Optional(StopLosses),
          winProb \in Optional(WinProbs), winAmount \in Optional(WinAmounts),
          lossAmount \in Optional(LossAmounts) :
          sizeCall' = [op |-> "calculatePositionSize", signalSize |-> signalSize,
                       balance |-> accountBalance, riskPerTrade |-> riskPerTrade,
                       stopLoss |-> stopLoss, winProb |-> winProb,
                       winAmount |-> winAmount, lossAmount |-> lossAmount,
                       result |-> calculatePositionSize(signalSize, accountBalance,
                                                        riskPerTrade, stopLoss, winProb,
                                                        winAmount, lossAmount)]
    /\ UNCHANGED now
    /\ OnlySizing

ReturnFromSizing ==
    /\ sizeCall.op # "idle"
    /\ sizeCall' = [op |-> "idle"]
    /\ UNCHANGED now
    /\ OnlySizing

(***************************************************************************)
(* OrderBookStore, TradeTapeStore and MarketStateStore                     *)
(*                                                                         *)
(* The prices and sizes of the book levels are integers; a trade price, an *)
(* EMA and each derived feature is a fraction in lowest terms, a Decimal   *)
(* having one representation for each value.  The square root taken by     *)
(* calculateVolatility is kept as the number under the root.               *)
(***************************************************************************)
\* the capacities, scaled down: levels kept a side by the book store,
\* trades kept a token by the tape, window of the volatility
topN == 1
maxTradesPerToken == 2
volWindow == 1
emaPeriod == 20

\* the calls stop after MaxTrades trades added and MaxReads features read
MaxTrades == 3
MaxReads == 3

RECURSIVE GCD(_, _)
GCD(a, b) == IF b = 0 THEN a ELSE GCD(b, a % b)
RatNorm(a) ==
    LET g == GCD(Abs(a[1]), a[2])
    IN  <<a[1] \div g, a[2] \div g>>
RatPlus(a, b) == RatNorm(<<a[1] * b[2] + b[1] * a[2], a[2] * b[2]>>)

\* array.slice(0, n) and array.slice(-n), n positive
SliceFirst(s, n) == SubSeq(s, 1, Min(n, Len(s)))
SliceLast(s, n) == SubSeq(s, Len(s) - Min(n, Len(s)) + 1, Len(s))

\* a push that drops the newest entry instead of the oldest
PushBoundedDropNewest(s, x, capacity) ==
    LET pushed == Append(s, x)
    IN  IF Len(pushed) > capacity THEN SubSeq(pushed, 1, Len(pushed) - 1) ELSE pushed

\* push, then shift when the array is longer than its capacity
PushBounded(s, x, capacity) ==
    LET pushed == Append(s, x)
    IN  IF Len(pushed) > capacity THEN Tail(pushed) ELSE pushed

\* a trim that cuts the bids only
trimmedBookBidsOnly(book) ==
    [book EXCEPT !.bids = SliceFirst(book.bids, topN)]

\* the book OrderBookStore.update stores
trimmedBook(book) ==
    [book EXCEPT !.bids = SliceFirst(book.bids, topN),
                 !.asks = SliceFirst(book.asks, topN)]

\* OrderBookStore.update
update(tokenId, book) ==
    books' = [books EXCEPT ![tokenId] = Some(trimmedBook(book))]

\* OrderBookStore.get: the book or null
getOrderBook(tokenId) == books[tokenId]

\* TradeTapeStore.add
tapeAdd(trade) ==
    trades' = [trades EXCEPT ![trade.tokenId] = PushBounded(@, trade, maxTradesPerToken)]

\* MarketStateStore.addTrade
addTrade(trade) ==
    /\ tapeAdd(trade)
    /\ priceHistory' = [priceHistory EXCEPT
                           ![trade.tokenId] = PushBounded(@, trade.price, volWindow * 2)]

\* TradeTapeStore.get
getTrades(tokenId, limit) == SliceLast(trades[tokenId], limit)

\* EMA: alpha, and the value after update(price), value being null at first
alpha == RatNorm(RatDiv(Whole(2), Whole(emaPeriod + 1)))

\* an update that forgets to take 1 - alpha of the old value
EMAupdateNoDecay(value, price) ==
    IF value = None THEN price
    ELSE RatPlus(RatTimes(alpha, price), ValueOf(value))

EMAupdate(value, price) ==
    IF value = None THEN price
    ELSE RatPlus(RatTimes(alpha, price),
                 RatTimes(RatMinus(Whole(1), alpha), ValueOf(value)))

\* calculateVolatility: the returns over the consecutive prices, the
\* earlier one positive
RECURSIVE Returns(_)
Returns(prices) ==
    IF Len(prices) < 2 THEN <<>>
    ELSE (IF prices[1][1] > 0
          THEN <<RatNorm(RatDiv(RatMinus(prices[2], prices[1]), prices[1]))>>
          ELSE <<>>) \o Returns(Tail(prices))

RECURSIVE RatSum(_)
RatSum(xs) == IF xs = <<>> THEN Whole(0) ELSE RatPlus(Head(xs), RatSum(Tail(xs)))

SqrtOf(v) == [sqrtOf |-> RatNorm(v)]

calculateVolatility(prices) ==
    LET returns == Returns(prices)
    IN  IF Len(prices) < 2 \/ returns = <<>> THEN SqrtOf(Whole(0))
        ELSE LET n == Whole(Len(returns))
                 mean == RatDiv(RatSum(returns), n)
                 squares == [i \in 1..Len(returns) |->
                                LET d == RatMinus(returns[i], mean) IN RatTimes(d, d)]
             IN  SqrtOf(RatDiv(RatSum(squares), n))

calculateSpread(book) ==
    IF book.bids = <<>> \/ book.asks = <<>> THEN None
    ELSE Some(Whole(book.asks[1].price - book.bids[1].price))

calculateMidPrice(book) ==
    IF book.bids = <<>> \/ book.asks = <<>> THEN None
    ELSE Some(RatNorm(<<book.bids[1].price + book.asks[1].price, 2>>))

RECURSIVE SumSizes(_)
SumSizes(levels) ==
    IF levels = <<>> THEN 0 ELSE Head(levels).size + SumSizes(Tail(levels))

\* a read that updates the EMA of the token before it looks for the book
emaAfterReadBookless(tokenId) ==
    LET window == getTrades(tokenId, volWindow)
    IN  IF window = <<>> THEN emas[tokenId]
        ELSE Some(EMAupdate(emas[tokenId], window[Len(window)].price))

\* the EMA of the token after getDerivedFeatures: updated with the latest
\* trade price when there is a book and a trade, created when missing
emaAfterRead(tokenId) ==
    LET window == getTrades(tokenId, volWindow)
    IN  IF getOrderBook(tokenId) = None \/ window = <<>> THEN emas[tokenId]
        ELSE Some(EMAupdate(emas[tokenId], window[Len(window)].price))

\* the record getDerivedFeatures returns
featuresOf(tokenId) ==
    LET book == getOrderBook(tokenId)
    IN  IF book = None
        THEN [midPrice |-> None, spread |-> None, spreadBps |-> None,
              bidDepth |-> 0, askDepth |-> 0, ema |-> None, ewmaVol |-> None,
              lastUpdate |-> now]
        ELSE LET b == ValueOf(book)
                 midPrice == calculateMidPrice(b)
                 spread == calculateSpread(b)
                 window == getTrades(tokenId, volWindow)
                 history == priceHistory[tokenId]
             IN  [midPrice |-> midPrice,
                  spread |-> spread,
                  spreadBps |-> IF IsSome(midPrice) /\ IsSome(spread)
                                THEN Some(RatNorm(RatTimes(RatDiv(ValueOf(spread),
                                                                  ValueOf(midPrice)),
                                                           Whole(10000))))
                                ELSE None,
                  bidDepth |-> SumSizes(b.bids),
                  askDepth |-> SumSizes(b.asks),
                  ema |-> IF window = <<>> THEN None ELSE emaAfterRead(tokenId),
                  ewmaVol |-> IF Len(history) >= 2 THEN Some(calculateVolatility(history))
                              ELSE None,
                  lastUpdate |-> b.timestamp]

\* a store that keeps one EMA for all the tokens
getDerivedFeaturesSharedEma(tokenId) ==
    /\ storeCall' = [op |-> "getDerivedFeatures", tokenId |-> tokenId,
                     features |-> featuresOf(tokenId)]
    /\ emas' = [t \in Tokens |-> emaAfterRead(tokenId)]
    /\ UNCHANGED <<books, trades, priceHistory>>

getDerivedFeatures(tokenId) ==
    /\ storeCall' = [op |-> "getDerivedFeatures", tokenId |-> tokenId,
                     features |-> featuresOf(tokenId)]
    /\ emas' = [emas EXCEPT ![tokenId] = emaAfterRead(tokenId)]
    /\ UNCHANGED <<books, trades, priceHistory>>

\* the books handed to OrderBookStore.update, deeper than topN
DeepLevels(prices) ==
    {<<>>} \cup {<<PriceLevel(p, 1)>> : p \in prices}
    \cup {<<PriceLevel(p, 1), PriceLevel(q, 1)>> : p \in prices, q \in prices}
DeepBooks == [bids : DeepLevels({1, 2}), asks : DeepLevels({2, 3}), timestamp : {0}]

\* the books handed to MarketStateStore.updateOrderBook
FeatureBooks ==
    [bids : {<<>>, <<PriceLevel(1, 1)>>, <<PriceLevel(1, 2), PriceLevel(1, 1)>>},
     asks : {<<>>, <<PriceLevel(3, 1)>>},
     timestamp : {0}]

\* the prices of the trades
TradePrices == {Whole(1), Whole(2)}

\* new MarketStateStore()
StoreIdle ==
    /\ books = [t \in Tokens |-> None]
    /\ trades = [t \in Tokens |-> <<>>]
    /\ priceHistory = [t \in Tokens |-> <<>>]
    /\ emas = [t \in Tokens |-> None]
    /\ storeCall = [op |-> "new"]
    /\ added = [t \in Tokens |-> <<>>]
    /\ readSince = [t \in Tokens |-> None]
    /\ readCount = 0

(***************************************************************************)
(* The volatility a store reports, by its volatilityWindow                 *)
(*                                                                         *)
(* A store whose volWindow is w (20 in the source, 1..MaxVolWindow here)   *)
(* keeps at most 2 x w prices of a token; getDerivedFeatures hands them    *)
(* all to calculateVolatility together with w, which calculateVolatility   *)
(* receives as _window and does not read.                                  *)
(***************************************************************************)
MaxVolWindow == 2

VolWindows == 1..MaxVolWindow

MaxVolPrice == 3

VolPrices == {Whole(p) : p \in 1..MaxVolPrice}

\* calculateVolatility(prices, _window)
calculateVolatilityOver(prices, window) == calculateVolatility(prices)

\* the ewmaVol of getDerivedFeatures for a history, null under two prices
ewmaVolOf(history, window) ==
    IF Len(history) >= 2 THEN Some(calculateVolatilityOver(history, window)) ELSE None

\* a store with volWindow w whose first token has a price history
VolatilityInit ==
    /\ books = [t \in Tokens |-> None]
    /\ trades = [t \in Tokens |-> <<>>]
    /\ emas = [t \in Tokens |-> None]
    /\ added = [t \in Tokens |-> <<>>]
    /\ readSince = [t \in Tokens |-> None]
    /\ readCount = 0
    /\ \E w \in VolWindows :
        /\ storeCall = [op |-> "new", volWindow |-> w]
        /\ \E history \in SeqsUpTo(VolPrices, 2 * MaxVolWindow) :
            /\ Len(history) <= 2 * w
            /\ priceHistory = [t \in Tokens |-> IF t = "t1" THEN history ELSE <<>>]

\* the volatility part of getDerivedFeatures("t1")
ReportVolatility ==
    /\ storeCall.op = "new"
    /\ storeCall' = [op |-> "ewmaVol", volWindow |-> storeCall.volWindow,
                     result |-> ewmaVolOf(priceHistory["t1"], storeCall.volWindow)]
    /\ UNCHANGED <<now, books, trades, priceHistory, emas, added, readSince, readCount>>
    /\ OnlyStore

TradesAdded == SumOver([t \in Tokens |-> Len(added[t])], Tokens)

\* OrderBookStore.update(tokenId, book)
Update ==
    /\ \E tokenId \in Tokens, book \in DeepBooks :
        /\ update(tokenId, book)
        /\ storeCall' = [op |-> "update", tokenId |-> tokenId, book |-> book]
        /\ readSince' = [readSince EXCEPT ![tokenId] = None]
    /\ UNCHANGED <<now, trades, priceHistory, emas, added, readCount>>
    /\ OnlyStore

\* OrderBookStore.get(tokenId)
GetOrderBook ==
    /\ \E tokenId \in Tokens :
        storeCall' = [op |-> "get", tokenId |-> tokenId, book |-> getOrderBook(tokenId)]
    /\ UNCHANGED <<now, books, trades, priceHistory, emas, added, readSince, readCount>>
    /\ OnlyStore

\* MarketStateStore.updateOrderBook(tokenId, book)
UpdateOrderBook ==
    /\ \E tokenId \in Tokens, book \in FeatureBooks :
        /\ update(tokenId, book)
        /\ storeCall' = [op |-> "updateOrderBook", tokenId |-> tokenId, book |-> book]
        /\ readSince' = [readSince EXCEPT ![tokenId] = None]
    /\ UNCHANGED <<now, trades, priceHistory, emas, added, readCount>>
    /\ OnlyStore

\* MarketStateStore.addTrade(trade)
AddTrade ==
    /\ TradesAdded < MaxTrades
    /\ \E tokenId \in Tokens, price \in TradePrices :
        /\ addTrade([tokenId |-> tokenId, price |-> price, size |-> 1, side |-> "buy",
                     timestamp |-> now])
        /\ storeCall' = [op |-> "addTrade", tokenId |-> tokenId, price |-> price]
        /\ added' = [added EXCEPT ![tokenId] = Append(@, price)]
        /\ readSince' = [readSince EXCEPT ![tokenId] = None]
    /\ UNCHANGED <<now, books, emas, readCount>>
    /\ OnlyStore

\* MarketStateStore.getDerivedFeatures(tokenId)
GetDerivedFeatures ==
    /\ readCount < MaxReads
    /\ \E tokenId \in Tokens :
        /\ getDerivedFeatures(tokenId)
        /\ readSince' = [readSince EXCEPT ![tokenId] = Some(storeCall'.features)]
    /\ readCount' = readCount + 1
    /\ UNCHANGED <<now, added>>
    /\ OnlyStore

(***************************************************************************)
(* ExperimentRunner.run                                                    *)
(*                                                                         *)
(* One turn of the main loop gates every signal of the tick, then places   *)
(* and processes the intents it kept, one after the other.  The runner     *)
(* keeps its positions under the token id alone, and its balance in        *)
(* hundredths, the unit of the fees.                                       *)
(***************************************************************************)
MaxSignals == 3

\* the signals of a strategy, but for their id: limit orders for one token
SignalShapes ==
    [marketId : {None}, tokenId : SimTokens, side : {"buy", "sell"},
     limitPrice : {1, 3}, size : {1}]

\* randomUUID(): the n-th signal produced gets the id n
WithId(shape, n) ==
    [id |-> n, marketId |-> shape.marketId, tokenId |-> shape.tokenId,
     side |-> shape.side, limitPrice |-> shape.limitPrice, size |-> shape.size]

signalToOrderIntent(signal) ==
    [id |-> signal.id, tokenId |-> signal.tokenId, side |-> signal.side,
     price |-> signal.limitPrice, size |-> signal.size, type |-> "limit"]

\* a loop that keeps every intent
keepsIntentAlways(intent) == TRUE

\* if (!intent.gated) gatedSignals.push(intent)
keepsIntent(intent) == ~intent.gated

\* processFill on the positions (sizes by token id) and the balance
processFill(held, fill) ==
    LET key == <<fill.tokenId>>
        notional == 100 * fill.price * fill.size
    IN  IF fill.side = "buy"
        THEN [positions |->
                 [k \in DOMAIN held.positions \cup {key} |->
                     IF k = key
                     THEN (IF key \in DOMAIN held.positions THEN held.positions[key] ELSE 0)
                          + fill.size
                     ELSE held.positions[k]],
              balance |-> held.balance - (notional + fill.fee)]
        ELSE [positions |->
                 IF key \in DOMAIN held.positions
                 THEN IF held.positions[key] - fill.size <= 0
                      THEN [k \in DOMAIN held.positions \ {key} |-> held.positions[k]]
                      ELSE [held.positions EXCEPT ![key] = @ - fill.size]
                 ELSE held.positions,
              balance |-> held.balance + (notional - fill.fee)]

RECURSIVE processFills(_, _)
processFills(held, fills) ==
    IF fills = <<>> THEN held
    ELSE processFills(processFill(held, Head(fills)), Tail(fills))

\* the books the feed stores for the token of the signals
RunnerBooks ==
    {[bids |-> <<>>, asks |-> <<>>, timestamp |-> 0],
     [bids |-> <<PriceLevel(1, 1)>>, asks |-> <<PriceLevel(3, 1)>>, timestamp |-> 0]}

RunnerIdle ==
    /\ runner = [phase |-> "idle"]
    /\ signalCount = 0
    /\ gatedIds = {}
    /\ passedIds = {}

\* the position limits of the runs: the environment's and the gate's are
\* set to the same number
RunnerPositionLimits == {1, 3}

\* the gate and the simulator handed to new ExperimentRunner(...), the
\* runner holding no position
RunnerInit ==
    /\ killSwitchFile = FALSE
    /\ dailyPnl = 0
    /\ dailyStartTime = now
    /\ orderCount = 0
    /\ orderWindowStart = now
    /\ \E limit \in RunnerPositionLimits :
        /\ rmConfig \in {[c EXCEPT !.MAX_POSITION_PER_MARKET = limit] : c \in RmConfigs}
        /\ rgConfig \in {[c EXCEPT !.maxPositionPerToken = limit] : c \in RgConfigs}
    /\ lastPriceUpdate = [t \in Tokens |-> None]
    /\ positions = <<>>
    /\ balance = 0
    /\ gateCall = [op |-> "idle"]
    /\ pnlToday = 0
    /\ ratePasses = <<>>
    /\ SimInit
    /\ RunnerIdle

RunnerFrame == UNCHANGED <<obVars, cbVars, simCallVars, sizingVars, storeVars, ledgerVars, appVars>>

\* the strategies return the signals of the tick
RunnerTick ==
    /\ runner.phase = "idle"
    /\ signalCount < MaxSignals
    /\ \E first \in SignalShapes :
        \/ /\ runner' = [phase |-> "gate", index |-> 1, gatedSignals |-> <<>>,
                         allSignals |-> <<WithId(first, signalCount + 1)>>]
           /\ signalCount' = signalCount + 1
        \/ /\ signalCount + 1 < MaxSignals
           /\ \E second \in SignalShapes :
                runner' = [phase |-> "gate", index |-> 1, gatedSignals |-> <<>>,
                           allSignals |-> <<WithId(first, signalCount + 1),
                                            WithId(second, signalCount + 2)>>]
           /\ signalCount' = signalCount + 2
    /\ UNCHANGED <<now, gateVars, simVars, gatedIds, passedIds>>
    /\ RunnerFrame

\* the gate loop: one signal is gated, its intent kept when not gated
RunnerGate ==
    /\ runner.phase = "gate"
    /\ runner.index <= Len(runner.allSignals)
    /\ LET signal == runner.allSignals[runner.index]
       IN  /\ gateSignal(signal)
           /\ runner' = [runner EXCEPT
                            !.index = @ + 1,
                            !.gatedSignals = IF keepsIntent(gateCall') THEN Append(@, gateCall')
                                             ELSE @]
           /\ gatedIds' = IF gateCall'.gated THEN gatedIds \cup {signal.id} ELSE gatedIds
           /\ passedIds' = IF gateCall'.gated THEN passedIds ELSE passedIds \cup {signal.id}
    /\ UNCHANGED <<now, histVars, simVars, signalCount>>
    /\ RunnerFrame

\* the gate loop is over
RunnerStartExecute ==
    /\ runner.phase = "gate"
    /\ runner.index > Len(runner.allSignals)
    /\ runner' = [runner EXCEPT !.phase = "execute", !.index = 1]
    /\ UNCHANGED <<now, gateVars, simVars, signalCount, gatedIds, passedIds>>
    /\ RunnerFrame

\* the execute loop: one kept intent is placed, the book of its token, if
\* any, processed (no trade is passed, so no random number is drawn) and
\* the new fills applied to the balance and the positions
RunnerExecute ==
    /\ runner.phase = "execute"
    /\ runner.index <= Len(runner.gatedSignals)
    /\ LET intent == runner.gatedSignals[runner.index]
           placed == placeOrder(sim, signalToOrderIntent(intent.signal))
           tokenId == intent.signal.tokenId
           book == getOrderBook(tokenId)
           after == IF book = None THEN placed
                    ELSE processMarketUpdate(placed, tokenId, ValueOf(book), None,
                                             [id \in 1..MaxSignals |-> FALSE])
           newFills == SubSeq(after.fills, Len(sim.fills) + 1, Len(after.fills))
           held == processFills([positions |-> positions, balance |-> balance], newFills)
       IN  /\ sims' = [sims EXCEPT ![1] = after]
           /\ positions' = held.positions
           /\ balance' = held.balance
    /\ runner' = [runner EXCEPT !.index = @ + 1]
    /\ UNCHANGED <<now, rmVars, rgConfig, lastPriceUpdate, gateCall, histVars, simConfig,
                   signalCount, gatedIds, passedIds>>
    /\ RunnerFrame

\* the execute loop is over: the simulated date advances to the next tick
RunnerAdvance ==
    /\ runner.phase = "execute"
    /\ runner.index > Len(runner.gatedSignals)
    /\ runner' = [phase |-> "idle"]
    /\ UNCHANGED <<now, gateVars, simVars, signalCount, gatedIds, passedIds>>
    /\ RunnerFrame

\* the operator creates or removes kill-switch.flag while the runner runs
RunnerKillSwitch ==
    /\ killSwitchFile' = ~killSwitchFile
    /\ UNCHANGED <<now, rmConfig, dailyPnl, dailyStartTime, orderCount, orderWindowStart,
                   rgVars, histVars, simVars, runnerVars>>
    /\ RunnerFrame

\* the feed stores a book for the token of the signals
RunnerFeed ==
    /\ \E tokenId \in SimTokens, book \in RunnerBooks :
        /\ update(tokenId, book)
        /\ storeCall' = [op |-> "updateOrderBook", tokenId |-> tokenId, book |-> book]
        /\ readSince' = [readSince EXCEPT ![tokenId] = None]
    /\ UNCHANGED <<now, trades, priceHistory, emas, added, readCount>>
    /\ UNCHANGED <<obVars, gateVars, simVars, cbVars, simCallVars, sizingVars, runnerVars,
                   ledgerVars, appVars>>

(***************************************************************************)
(* Loading the configuration and constructing the gate                     *)
(*                                                                         *)
(* A variable of the environment is absent or holds the text of a number; *)
(* z.string().transform(Number) turns the text into the number it denotes *)
(* and default(...) supplies the text of an absent variable.               *)
(***************************************************************************)
\* the numbers the texts of the environment denote, and the limits passed
\* to new RiskGate(...): one limit set at a time, the others left out
ConfiguredNumbers == {0 - 1, 0, 2}
EnvNames == {"MAX_POSITION_PER_MARKET", "MAX_DAILY_LOSS", "MAX_ORDER_RATE_PER_SECOND",
             "MAX_GROSS_EXPOSURE"}
GateLimitNames == {"maxPositionPerToken", "maxGrossExposure", "maxNetExposure",
                   "maxDailyLoss", "staleFeedMs"}
Environments ==
    {[n \in EnvNames |-> None]}
    \cup {[n \in EnvNames |-> IF n = m THEN Some(v) ELSE None] :
             m \in EnvNames, v \in ConfiguredNumbers}
PartialConfigs ==
    {[n \in GateLimitNames |-> None]}
    \cup {[n \in GateLimitNames |-> IF n = m THEN Some(v) ELSE None] :
             m \in GateLimitNames, v \in ConfiguredNumbers}

\* config.x ?? d, and z.string().transform(Number).default(d)
OrDefault(opt, d) == IF IsSome(opt) THEN ValueOf(opt) ELSE d

\* envSchema.safeParse succeeds for every text of a number: no limit is
\* compared with zero
getConfig(env) ==
    [MAX_POSITION_PER_MARKET |-> OrDefault(env["MAX_POSITION_PER_MARKET"], 1000),
     MAX_DAILY_LOSS |-> OrDefault(env["MAX_DAILY_LOSS"], 500),
     MAX_ORDER_RATE_PER_SECOND |-> OrDefault(env["MAX_ORDER_RATE_PER_SECOND"], 10),
     MAX_GROSS_EXPOSURE |-> OrDefault(env["MAX_GROSS_EXPOSURE"], 10000)]

\* the config the constructor of RiskGate keeps
RiskGateConfigOf(config) ==
    [maxPositionPerToken |-> OrDefault(config["maxPositionPerToken"], 1000),
     maxGrossExposure |-> OrDefault(config["maxGrossExposure"], 10000),
     maxNetExposure |-> OrDefault(config["maxNetExposure"], 5000),
     maxDailyLoss |-> OrDefault(config["maxDailyLoss"], 500),
     staleFeedMs |-> OrDefault(config["staleFeedMs"], 60000)]

\* new RiskManager() in some environment, then new RiskGate(riskManager, config)
\* with some config
GateConstructed ==
    /\ killSwitchFile = FALSE
    /\ \E env \in Environments : rmConfig = getConfig(env)
    /\ dailyPnl = 0
    /\ dailyStartTime = now
    /\ orderCount = 0
    /\ orderWindowStart = now
    /\ \E config \in PartialConfigs : rgConfig = RiskGateConfigOf(config)
    /\ lastPriceUpdate = [t \in Tokens |-> None]
    /\ positions = [k \in PositionKeys |-> 0]
    /\ balance = 0
    /\ gateCall = [op |-> "idle"]
    /\ pnlToday = 0
    /\ ratePasses = <<>>

(***************************************************************************)
(* TokenBucketRateLimiter                                                  *)
(*                                                                         *)
(* Time is counted in units of one second and the refill rate is a whole   *)
(* number of tokens per second, so the token count stays a whole number.   *)
(* acquire() runs to its await in one step; the timer it set fires at or   *)
(* after its delay (the jitter and the lateness of timers only add to the  *)
(* delay), and the rest of acquire() runs in a second step.                *)
(***************************************************************************)
MaxCallers == 3
MaxLimiterTime == 2
MaxAcquires == 4

Callers == 1..MaxCallers

\* the capacity and the refill rate a limiter is constructed with
LimiterConfigs == {[capacity |-> 1, refillRate |-> 1], [capacity |-> 2, refillRate |-> 1]}

OnlyLimiter ==
    UNCHANGED <<obVars, gateVars, simVars, cbVars, simCallVars, sizingVars, storeVars,
                runnerVars, ledgerVars, bot, ingest, wsc>>

\* new TokenBucketRateLimiter(capacity, refillRate), no acquire() called yet
LimiterInit ==
    \E config \in LimiterConfigs :
        limiter = [capacity |-> config.capacity, refillRate |-> config.refillRate,
                   tokens |-> config.capacity, lastRefill |-> now,
                   waiting |-> [c \in Callers |-> None],
                   completed |-> 0, since |-> now]

\* refill()
refill(l) ==
    [l EXCEPT !.tokens = Min(l.capacity, l.tokens + (now - l.lastRefill) * l.refillRate),
              !.lastRefill = now]

\* the delay of the timer, without the jitter: (1 - tokens) / refillRate
\* seconds, rounded up to a whole second
waitTime(l) == ((1 - l.tokens) + (l.refillRate - 1)) \div l.refillRate

\* acquire() up to its return or its await
AcquireStart ==
    /\ limiter.completed + Cardinality({c \in Callers : IsSome(limiter.waiting[c])})
           < MaxAcquires
    /\ \E caller \in Callers :
        /\ limiter.waiting[caller] = None
        /\ LET filled == refill(limiter)
           IN  limiter' = IF filled.tokens >= 1
                          THEN [filled EXCEPT !.tokens = @ - 1, !.completed = @ + 1]
                          ELSE [filled EXCEPT !.waiting[caller] = Some(now + waitTime(filled))]
    /\ UNCHANGED now
    /\ OnlyLimiter

\* the timer of a waiting acquire() has fired: refill, take a token, return
AcquireResume ==
    /\ \E caller \in Callers :
        /\ IsSome(limiter.waiting[caller])
        /\ now >= ValueOf(limiter.waiting[caller])
        /\ limiter' = [refill(limiter) EXCEPT !.tokens = @ - 1, !.completed = @ + 1,
                                              !.waiting[caller] = None]
    /\ UNCHANGED now
    /\ OnlyLimiter

\* reset(); the acquire() calls that wait keep waiting
LimiterReset ==
    /\ limiter' = [limiter EXCEPT !.tokens = limiter.capacity, !.lastRefill = now,
                                  !.completed = 0, !.since = now]
    /\ UNCHANGED now
    /\ OnlyLimiter

TickLimiter ==
    /\ now < MaxLimiterTime
    /\ now' = now + 1
    /\ UNCHANGED limiter
    /\ OnlyLimiter

(***************************************************************************)
(* PolymarketWebSocketClient and ClobWsClient                              *)
(*                                                                         *)
(* The two clients have the same connect, disconnect, scheduleReconnect    *)
(* and clearReconnectTimer.  A socket is a WebSocket object made by        *)
(* connect(); its listeners stay on it after this.ws is set to null, and   *)
(* its events are delivered as steps of their own, after the call that     *)
(* caused them has returned.                                               *)
(***************************************************************************)
MaxSockets == 3

SocketIds == 1..MaxSockets

OnlyWsClient ==
    UNCHANGED <<now, obVars, gateVars, simVars, cbVars, simCallVars, sizingVars, storeVars,
                runnerVars, ledgerVars, bot, ingest, limiter>>

\* new PolymarketWebSocketClient(); disconnected and openedSince are
\* history: whether disconnect() was the caller's last word, and whether a
\* socket was made since
WsClientInit ==
    wsc = [ws |-> None, reconnectTimer |-> FALSE, isConnecting |-> FALSE,
           sockets |-> [s \in SocketIds |-> "unused"],
           disconnected |-> FALSE, openedSince |-> FALSE]

\* this.ws.readyState === WebSocket.OPEN
wsIsOpen(c) == IsSome(c.ws) /\ c.sockets[ValueOf(c.ws)] = "open"

\* clearReconnectTimer()
clearReconnectTimer(c) == [c EXCEPT !.reconnectTimer = FALSE]

\* scheduleReconnect(): a timer is set unless one is pending
scheduleReconnect(c) == [c EXCEPT !.reconnectTimer = TRUE]

\* connect(): nothing while connecting or open, else a new socket is made
connect(c) ==
    IF c.isConnecting \/ wsIsOpen(c) THEN c
    ELSE LET s == CHOOSE id \in SocketIds :
                      /\ c.sockets[id] = "unused"
                      /\ \A other \in SocketIds : c.sockets[other] = "unused" => id <= other
         IN  [c EXCEPT !.isConnecting = TRUE, !.ws = Some(s),
                       !.sockets[s] = "connecting",
                       !.openedSince = c.disconnected]

\* a socket is left to make, or connect() would make none
CanConnect(c) ==
    c.isConnecting \/ wsIsOpen(c) \/ \E id \in SocketIds : c.sockets[id] = "unused"

\* the caller calls connect()
WsConnect ==
    /\ CanConnect(wsc)
    /\ wsc' = connect([wsc EXCEPT !.disconnected = FALSE, !.openedSince = FALSE])
    /\ OnlyWsClient

\* the caller calls disconnect(): ws.close() starts the closing handshake
\* of an open socket and aborts a connecting one
disconnect(c) ==
    [clearReconnectTimer(c) EXCEPT
        !.ws = None,
        !.sockets = IF IsSome(c.ws) /\ c.sockets[ValueOf(c.ws)] \in {"connecting", "open"}
                    THEN [@ EXCEPT ![ValueOf(c.ws)] = "closing"]
                    ELSE @,
        !.disconnected = TRUE, !.openedSince = FALSE]

WsDisconnect ==
    /\ wsc' = disconnect(wsc)
    /\ OnlyWsClient

\* the 'open' event of a socket
SocketOpen ==
    /\ \E s \in SocketIds :
        /\ wsc.sockets[s] = "connecting"
        /\ wsc' = [clearReconnectTimer(wsc) EXCEPT !.isConnecting = FALSE,
                                                   !.sockets[s] = "open"]
    /\ OnlyWsClient

\* the 'error' event of a socket that fails to connect; its 'close' follows
SocketError ==
    /\ \E s \in SocketIds :
        /\ wsc.sockets[s] = "connecting"
        /\ wsc' = [wsc EXCEPT !.isConnecting = FALSE, !.sockets[s] = "closing"]
    /\ OnlyWsClient

\* the 'close' event of a socket: closed by the peer, by the network, or
\* at the end of the handshake ws.close() started
SocketClose ==
    /\ \E s \in SocketIds :
        /\ wsc.sockets[s] \in {"open", "closing"}
        /\ wsc' = [scheduleReconnect(wsc) EXCEPT !.isConnecting = FALSE,
                                                 !.sockets[s] = "closed"]
    /\ OnlyWsClient

\* the reconnect timer fires
ReconnectTimerFires ==
    /\ wsc.reconnectTimer
    /\ CanConnect(wsc)
    /\ wsc' = connect([wsc EXCEPT !.reconnectTimer = FALSE])
    /\ OnlyWsClient

(***************************************************************************)
(* MarketIngestion                                                         *)
(*                                                                         *)
(* The exchange numbers the states of the book of a token; a WebSocket     *)
(* book update carries the number of the state it leads to and the         *)
(* updates arrive in the order they were sent; a REST snapshot carries the *)
(* number of the state the exchange was in when it answered, and is        *)
(* handled when the await of restClient.getOrderBook resumes.  Of an       *)
(* InMemoryOrderBook the sequence numbers are kept, not the levels.        *)
(***************************************************************************)
MaxServerSeq == 2
MaxFetches == 2

ServerSeqs == 0..MaxServerSeq

OnlyIngestion ==
    UNCHANGED <<obVars, gateVars, simVars, cbVars, simCallVars, sizingVars, storeVars,
                runnerVars, ledgerVars, bot, limiter, wsc>>

\* new MarketIngestion(...): no book, no price update, wsDisconnectTime
\* null; server, wsQueue, fetches and fetched are the exchange, the updates
\* and the snapshots on their way and the number of snapshots asked for;
\* applied is history: the sequence of the last update that was applied
IngestionInit ==
    ingest = [orderBooks |-> [t \in Tokens |-> None],
              lastPriceUpdate |-> [t \in Tokens |-> None],
              wsDisconnectTime |-> None,
              server |-> [t \in Tokens |-> 0],
              wsQueue |-> <<>>,
              fetches |-> {},
              fetched |-> 0,
              applied |-> [t \in Tokens |-> None]]

\* new InMemoryOrderBook(initialBook)
newInMemoryOrderBook(initialBook) ==
    [sequence |-> initialBook.sequence, lastSequence |-> initialBook.sequence]

\* InMemoryOrderBook.applyDelta, the sequence check and the sequence kept
bookAfterDelta(book, sequence) ==
    IF sequence <= book.lastSequence THEN book
    ELSE [sequence |-> sequence, lastSequence |-> sequence]

\* the onBookUpdate handler of setupWebSocketHandlers
onBookUpdate(m, tokenId, book) ==
    [m EXCEPT !.orderBooks[tokenId] =
                  IF IsSome(@) THEN Some(bookAfterDelta(ValueOf(@), book.sequence))
                  ELSE Some(newInMemoryOrderBook(book)),
              !.lastPriceUpdate[tokenId] = Some(now)]

\* the body of the loop of syncOrderBooks after its await
snapshotHandled(m, tokenId, book) ==
    [m EXCEPT !.orderBooks[tokenId] = Some(newInMemoryOrderBook(book)),
              !.lastPriceUpdate[tokenId] = Some(now)]

\* getOrderBook(tokenId)
ingestedBook(tokenId) == ingest.orderBooks[tokenId]

\* the exchange changes the book of a token and sends the update
ExchangeUpdate ==
    /\ \E tokenId \in Tokens :
        /\ ingest.server[tokenId] < MaxServerSeq
        /\ ingest' = [ingest EXCEPT
                         !.server[tokenId] = @ + 1,
                         !.wsQueue = Append(@, [tokenId |-> tokenId,
                                                sequence |-> ingest.server[tokenId] + 1])]
    /\ UNCHANGED now
    /\ OnlyIngestion

\* the next book update arrives
ReceiveWsBookUpdate ==
    /\ ingest.wsQueue # <<>>
    /\ LET message == Head(ingest.wsQueue)
           handled == onBookUpdate(ingest, message.tokenId, message)
           before == ingest.orderBooks[message.tokenId]
           taken == before = None \/ message.sequence > ValueOf(before).lastSequence
       IN  ingest' = [handled EXCEPT
                         !.wsQueue = Tail(@),
                         !.applied[message.tokenId] =
                             IF taken THEN Some(message.sequence) ELSE @]
    /\ UNCHANGED now
    /\ OnlyIngestion

\* syncOrderBooks reaches await restClient.getOrderBook(tokenId): the
\* exchange answers with the state it is in
SyncOrderBookRequest ==
    /\ ingest.fetched < MaxFetches
    /\ \E tokenId \in Tokens :
        ingest' = [ingest EXCEPT
                      !.fetched = @ + 1,
                      !.fetches = @ \cup {[tokenId |-> tokenId,
                                           sequence |-> ingest.server[tokenId]]}]
    /\ UNCHANGED now
    /\ OnlyIngestion

\* the await resumes with the snapshot
SyncOrderBookResponse ==
    /\ \E fetch \in ingest.fetches :
        ingest' = [snapshotHandled(ingest, fetch.tokenId, fetch) EXCEPT
                      !.fetches = @ \ {fetch}]
    /\ UNCHANGED now
    /\ OnlyIngestion

(***************************************************************************)
(* TradingBot                                                              *)
(*                                                                         *)
(* start() has connected the WebSocket, synced the markets and the books   *)
(* and set the interval timer.  Every tickMs the timer calls tick(), which *)
(* runs up to its first await in one step and resumes after each await in  *)
(* a step of its own; between two such steps any other callback can run.   *)
(* The clock is read when the timer fires.                                 *)
(***************************************************************************)
tickMs == 5000
MaxBotTicks == 2

TickIds == 1..MaxBotTicks

BotClockEnd == StartTime + MaxBotTicks * tickMs

\* the circuit-breaker limits of the bot, in tick intervals
BotCbConfigs ==
    {[WEBSOCKET_DISCONNECT_TIMEOUT_MS |-> tickMs, PRICE_FEED_STALE_MS |-> 2 * tickMs,
      MAX_ERROR_RATE_PER_MINUTE |-> 2]}

BotFrame ==
    UNCHANGED <<obVars, simVars, simCallVars, sizingVars, storeVars, runnerVars, ledgerVars,
                limiter>>

\* the places of tick() at which it waits: buildTradingState, strategy.onTick,
\* orderManager.placeOrder, orderManager.syncOpenOrders, and stop()
TickWaits == {"buildTradingState", "onTick", "processSignal", "syncOpenOrders", "stop"}

\* the bot after start(): the socket open, the books of the markets synced
\* or no market found; due says the interval has elapsed, downSince is
\* history: since when the WebSocket has not been connected
BotInit ==
    /\ bot = [isRunning |-> TRUE, tickInterval |-> TRUE, due |-> FALSE,
              ticks |-> [id \in TickIds |-> [at |-> "unused"]],
              downSince |-> None]
    /\ wsc = [ws |-> Some(1), reconnectTimer |-> FALSE, isConnecting |-> FALSE,
              sockets |-> [s \in SocketIds |-> IF s = 1 THEN "open" ELSE "unused"],
              disconnected |-> FALSE, openedSince |-> FALSE]
    /\ \E synced \in {None, Some(now)} :
        ingest = [orderBooks |-> [t \in Tokens |->
                                     IF IsSome(synced)
                                     THEN Some([sequence |-> 0, lastSequence |-> 0])
                                     ELSE None],
                  lastPriceUpdate |-> [t \in Tokens |-> synced],
                  wsDisconnectTime |-> None,
                  server |-> [t \in Tokens |-> 0],
                  wsQueue |-> <<>>, fetches |-> {}, fetched |-> 0,
                  applied |-> [t \in Tokens |-> None]]
    /\ cbConfig \in BotCbConfigs
    /\ errorCount = 0
    /\ errorWindowStart = now
    /\ cbCall = [op |-> "idle"]
    /\ errorTimes = <<>>

\* getLatestPriceUpdate(): the latest of the price updates of the tokens
getLatestPriceUpdate ==
    LET seen == {t \in Tokens : IsSome(ingest.lastPriceUpdate[t])}
    IN  IF seen = {} THEN None
        ELSE Some(CHOOSE latest \in {ValueOf(ingest.lastPriceUpdate[t]) : t \in seen} :
                      \A t \in seen : ValueOf(ingest.lastPriceUpdate[t]) <= latest)

\* the ticks that have started and not returned
TicksInProgress == {id \in TickIds : bot.ticks[id].at \in TickWaits}

\* the interval elapses
BotClockAdvance ==
    /\ ~bot.due
    /\ now < BotClockEnd
    /\ now' = now + tickMs
    /\ bot' = [bot EXCEPT !.due = bot.tickInterval]
    /\ UNCHANGED <<gateVars, cbVars, ingest, wsc>>
    /\ BotFrame

\* the timer calls tick(): the kill switch and the circuit breakers are
\* checked, and the tick returns, or waits for stop() or buildTradingState()
IntervalFires ==
    /\ bot.due
    /\ bot.tickInterval
    /\ \E id \in TickIds :
        /\ bot.ticks[id].at = "unused"
        /\ \A other \in TickIds : bot.ticks[other].at = "unused" => id <= other
        /\ IF checkKillSwitch
           THEN /\ bot' = [bot EXCEPT !.due = FALSE, !.isRunning = FALSE,
                                      !.tickInterval = FALSE,
                                      !.ticks[id] = [at |-> "stop"]]
                /\ UNCHANGED cbVars
           ELSE /\ checkCircuitBreakers(wsIsOpen(wsc), ingest.wsDisconnectTime,
                                        getLatestPriceUpdate)
                /\ bot' = [bot EXCEPT
                              !.due = FALSE,
                              !.ticks[id] =
                                  [at |-> IF cbCall'.allowed THEN "buildTradingState"
                                          ELSE "stopped",
                                   reason |-> cbCall'.reason,
                                   downFor |-> IF IsSome(bot.downSince)
                                               THEN Some(now - ValueOf(bot.downSince))
                                               ELSE None]]
                /\ UNCHANGED <<cbConfig, errorTimes>>
    /\ UNCHANGED <<now, gateVars, ingest, wsc>>
    /\ BotFrame

\* an await of tick() resumes and tick() runs to its next await or its end
TickResumes ==
    /\ \E id \in TickIds :
        /\ bot.ticks[id].at \in TickWaits \ {"stop"}
        /\ bot' = [bot EXCEPT !.ticks[id].at =
                      CASE @ = "buildTradingState" -> "onTick"
                        [] @ = "onTick" -> "processSignal"
                        [] @ = "processSignal" -> "syncOpenOrders"
                        [] @ = "syncOpenOrders" -> "returned"]
    /\ UNCHANGED <<now, gateVars, cbVars, ingest, wsc>>
    /\ BotFrame

\* an await of tick() rejects: a strategy error is recorded and the tick goes
\* on; any other error ends the tick and the catch of the timer callback
\* records it
TickFails ==
    /\ Len(errorTimes) < MaxErrors
    /\ \E id \in TickIds :
        /\ bot.ticks[id].at \in TickWaits \ {"stop"}
        /\ bot' = [bot EXCEPT !.ticks[id].at =
                      IF @ = "onTick" THEN "processSignal" ELSE "failed"]
    /\ recordError
    /\ errorTimes' = Append(errorTimes, now)
    /\ UNCHANGED <<now, gateVars, cbConfig, errorWindowStart, cbCall, ingest, wsc>>
    /\ BotFrame

\* stop() resumes after its awaits and disconnects the WebSocket
StopFinishes ==
    /\ \E id \in TickIds :
        /\ bot.ticks[id].at = "stop"
        /\ bot' = [bot EXCEPT !.ticks[id].at = "returned"]
    /\ wsc' = disconnect(wsc)
    /\ UNCHANGED <<now, gateVars, cbVars, ingest>>
    /\ BotFrame

\* the operator creates kill-switch.flag
BotKillSwitch ==
    /\ ~killSwitchFile
    /\ killSwitchFile' = TRUE
    /\ UNCHANGED <<now, rmConfig, dailyPnl, dailyStartTime, orderCount, orderWindowStart,
                   rgVars, histVars, cbVars, bot, ingest, wsc>>
    /\ BotFrame

\* the 'close' event of a socket of the bot's client
BotSocketClose ==
    /\ \E s \in SocketIds :
        /\ wsc.sockets[s] \in {"open", "closing"}
        /\ wsc' = [scheduleReconnect(wsc) EXCEPT !.isConnecting = FALSE,
                                                 !.sockets[s] = "closed"]
        /\ bot' = [bot EXCEPT !.downSince =
                      IF wsIsOpen(wsc) /\ wsc.ws = Some(s) THEN Some(now) ELSE @]
    /\ UNCHANGED <<now, gateVars, cbVars, ingest>>
    /\ BotFrame

\* the reconnect timer of the bot's client fires
BotReconnectTimerFires ==
    /\ wsc.reconnectTimer
    /\ CanConnect(wsc)
    /\ wsc' = connect([wsc EXCEPT !.reconnectTimer = FALSE])
    /\ UNCHANGED <<now, gateVars, cbVars, bot, ingest>>
    /\ BotFrame

\* the 'open' event of a socket of the bot's client
BotSocketOpen ==
    /\ \E s \in SocketIds :
        /\ wsc.sockets[s] = "connecting"
        /\ wsc' = [clearReconnectTimer(wsc) EXCEPT !.isConnecting = FALSE,
                                                   !.sockets[s] = "open"]
        /\ bot' = [bot EXCEPT !.downSince = IF wsc.ws = Some(s) THEN None ELSE @]
    /\ UNCHANGED <<now, gateVars, cbVars, ingest>>
    /\ BotFrame

\* the 'error' event of a socket that fails to connect
BotSocketError ==
    /\ \E s \in SocketIds :
        /\ wsc.sockets[s] = "connecting"
        /\ wsc' = [wsc EXCEPT !.isConnecting = FALSE, !.sockets[s] = "closing"]
    /\ UNCHANGED <<now, gateVars, cbVars, bot, ingest>>
    /\ BotFrame

\* a book update arrives over the open socket
BotBookUpdate ==
    /\ wsIsOpen(wsc)
    /\ \E tokenId \in Tokens :
        /\ ingest.lastPriceUpdate[tokenId] # Some(now)
        /\ ingest' = onBookUpdate(ingest, tokenId, [sequence |-> 0])
    /\ UNCHANGED <<now, gateVars, cbVars, bot, wsc>>
    /\ BotFrame

vars == <<now, obVars, gateVars, simVars, cbVars, simCallVars, sizingVars, storeVars, runnerVars,
          ledgerVars, appVars>>

InitBook == now = 0 /\ ObInit /\ GateIdle /\ SimIdle /\ BreakersIdle /\ SimCallIdle /\ SizingIdle /\ StoreIdle /\ RunnerIdle /\ LedgerIdle /\ AppIdle

NextBook == ReceiveBookUpdate \/ ApplyDelta \/ ReturnFromUpdate \/ TickBook

SpecBook == InitBook /\ [][NextBook]_vars

InitGate == now = StartTime /\ GateInit /\ ObIdle /\ SimIdle /\ BreakersIdle /\ SimCallIdle /\ SizingIdle /\ StoreIdle /\ RunnerIdle /\ LedgerIdle /\ AppIdle

NextGate ==
    \/ GateSignal
    \/ ReturnFromGate
    \/ UpdatePriceFeed
    \/ UpdateDailyPnl
    \/ SetKillSwitch
    \/ SetPosition
    \/ TickGate

SpecGate == InitGate /\ [][NextGate]_vars

\* the gate and the daily PnL, the PnL of the current UTC day recorded
NextDaily ==
    \/ GateSignal
    \/ ReturnFromGate
    \/ UpdateDailyPnlRecorded
    \/ SetPosition
    \/ TickDay

SpecDaily == InitGate /\ [][NextDaily]_vars

\* the gate evaluated at arbitrary times, the order-rate passes recorded
NextRate ==
    \/ GateSignalRecorded
    \/ ReturnFromGate
    \/ UpdatePriceFeed
    \/ SetKillSwitch
    \/ TickRecorded

SpecRate == InitGate /\ [][NextRate]_vars

\* two simulators fed the same calls
InitSimPair == now = 0 /\ SimInit /\ ObIdle /\ GateIdle /\ BreakersIdle /\ SimCallIdle /\ SizingIdle /\ StoreIdle /\ RunnerIdle /\ LedgerIdle /\ AppIdle

NextSimPair == PlaceOrder \/ CancelOrder \/ ProcessMarketUpdate

SpecSimPair == InitSimPair /\ [][NextSimPair]_vars

\* one simulator, every call on it recorded
NextSim == PlaceOrderCall \/ CancelOrderCall \/ ProcessMarketUpdateCall \/ ReturnFromSim

SpecSim == InitSimPair /\ [][NextSim]_vars

\* one simulator, the ids that left its open table remembered
NextSimLife == PlaceOrderTracked \/ CancelOrderTracked \/ ProcessMarketUpdateTracked

SpecSimLife == InitSimPair /\ [][NextSimLife]_vars

\* the first simulator with the ledger of its orders
InitSimLedger ==
    now = 0 /\ SimInit /\ LedgerInit /\ ObIdle /\ GateIdle /\ BreakersIdle /\ SimCallIdle
    /\ SizingIdle /\ StoreIdle /\ RunnerIdle /\ AppIdle

NextSimLedger == PlaceOrderLedger \/ CancelOrderLedger \/ ProcessMarketUpdateLedger

SpecSimLedger == InitSimLedger /\ [][NextSimLedger]_vars

\* the first simulator under market orders of fresh ids, with processMarketUpdate
\* called again and again with a book that has asks and with one that has bids
NextSimFair == PlaceMarketOrderOnce \/ CancelOrderLedger \/ ProcessMarketUpdateFair

SpecSimFair ==
    /\ InitSimLedger
    /\ [][NextSimFair]_vars
    /\ WF_vars(ProcessOpposing("buy"))
    /\ WF_vars(ProcessOpposing("sell"))

\* the circuit breakers of one RiskManager
InitBreakers == now = StartTime /\ BreakersInit /\ ObIdle /\ GateIdle /\ SimIdle /\ SimCallIdle /\ SizingIdle /\ StoreIdle /\ RunnerIdle /\ LedgerIdle /\ AppIdle

NextBreakers == CheckCircuitBreakers \/ RecordError \/ TickBreakers

SpecBreakers == InitBreakers /\ [][NextBreakers]_vars

\* position sizing, a function of its arguments
InitSizing ==
    now = 0 /\ SizingIdle /\ ObIdle /\ GateIdle /\ SimIdle /\ BreakersIdle /\ SimCallIdle /\ StoreIdle /\ RunnerIdle
    /\ LedgerIdle /\ AppIdle

NextSizing == CalculatePositionSize \/ ReturnFromSizing

SpecSizing == InitSizing /\ [][NextSizing]_vars

\* the gate constructed from any environment and any config, then used
InitConstructed ==
    now = StartTime /\ GateConstructed /\ ObIdle /\ SimIdle /\ BreakersIdle /\ SimCallIdle /\ SizingIdle /\ StoreIdle /\ RunnerIdle
    /\ LedgerIdle /\ AppIdle

NextConstructed == GateSignal \/ ReturnFromGate \/ UpdatePriceFeed

SpecConstructed == InitConstructed /\ [][NextConstructed]_vars

\* the order book store alone, fed books deeper than topN
InitStore ==
    now = 0 /\ StoreIdle /\ ObIdle /\ GateIdle /\ SimIdle /\ BreakersIdle /\ SimCallIdle /\ SizingIdle /\ RunnerIdle
    /\ LedgerIdle /\ AppIdle

NextBookStore == Update \/ GetOrderBook

SpecBookStore == InitStore /\ [][NextBookStore]_vars

\* the market state store: books, trades and feature reads of two tokens
NextStore == UpdateOrderBook \/ AddTrade \/ GetDerivedFeatures

SpecStore == InitStore /\ [][NextStore]_vars

\* the volatility reported for the histories a store can hold
InitVolatility ==
    now = 0 /\ VolatilityInit /\ ObIdle /\ GateIdle /\ SimIdle /\ BreakersIdle /\ SimCallIdle
    /\ SizingIdle /\ RunnerIdle /\ LedgerIdle /\ AppIdle

NextVolatility == ReportVolatility

SpecVolatility == InitVolatility /\ [][NextVolatility]_vars

\* the experiment runner with its gate, its simulator and its state store
InitRunner ==
    now = StartTime /\ RunnerInit /\ ObIdle /\ BreakersIdle /\ SimCallIdle /\ SizingIdle /\ StoreIdle
    /\ LedgerIdle /\ AppIdle

NextRunner ==
    \/ RunnerTick
    \/ RunnerGate
    \/ RunnerStartExecute
    \/ RunnerExecute
    \/ RunnerAdvance
    \/ RunnerKillSwitch
    \/ RunnerFeed

SpecRunner == InitRunner /\ [][NextRunner]_vars

\* one TokenBucketRateLimiter and its callers
InitLimiter ==
    /\ now = 0 /\ LimiterInit /\ bot = <<>> /\ ingest = <<>> /\ wsc = <<>>
    /\ ObIdle /\ GateIdle /\ SimIdle /\ BreakersIdle /\ SimCallIdle /\ SizingIdle /\ StoreIdle
    /\ RunnerIdle /\ LedgerIdle

NextLimiter == AcquireStart \/ AcquireResume \/ LimiterReset \/ TickLimiter

SpecLimiter == InitLimiter /\ [][NextLimiter]_vars

\* one WebSocket client, its caller and its sockets
InitWsClient ==
    /\ now = 0 /\ WsClientInit /\ bot = <<>> /\ ingest = <<>> /\ limiter = <<>>
    /\ ObIdle /\ GateIdle /\ SimIdle /\ BreakersIdle /\ SimCallIdle /\ SizingIdle /\ StoreIdle
    /\ RunnerIdle /\ LedgerIdle

NextWsClient ==
    \/ WsConnect
    \/ WsDisconnect
    \/ SocketOpen
    \/ SocketError
    \/ SocketClose
    \/ ReconnectTimerFires

SpecWsClient == InitWsClient /\ [][NextWsClient]_vars

\* one MarketIngestion with its WebSocket feed and its REST syncs
InitIngestion ==
    /\ now = 0 /\ IngestionInit /\ bot = <<>> /\ limiter = <<>> /\ wsc = <<>>
    /\ ObIdle /\ GateIdle /\ SimIdle /\ BreakersIdle /\ SimCallIdle /\ SizingIdle /\ StoreIdle
    /\ RunnerIdle /\ LedgerIdle

NextIngestion ==
    \/ ExchangeUpdate
    \/ ReceiveWsBookUpdate
    \/ SyncOrderBookRequest
    \/ SyncOrderBookResponse

SpecIngestion == InitIngestion /\ [][NextIngestion]_vars

\* the running bot with its timer, its WebSocket client and its breakers
InitBot ==
    /\ now = StartTime /\ BotInit /\ limiter = <<>>
    /\ ObIdle /\ GateIdle /\ SimIdle /\ SimCallIdle /\ SizingIdle /\ StoreIdle
    /\ RunnerIdle /\ LedgerIdle

NextBot ==
    \/ BotClockAdvance
    \/ IntervalFires
    \/ TickResumes
    \/ TickFails
    \/ StopFinishes
    \/ BotKillSwitch
    \/ BotSocketClose
    \/ BotReconnectTimerFires
    \/ BotSocketOpen
    \/ BotSocketError
    \/ BotBookUpdate

SpecBot == InitBot /\ [][NextBot]_vars

(***************************************************************************)
(* Claims about the order book                                             *)
(***************************************************************************)
LevelSet(levels) == {levels[i] : i \in 1..Len(levels)}
PriceSet(levels) == {levels[i].price : i \in 1..Len(levels)}
BookVars == <<bids, asks, bookSequence, lastSequence, lastUpdate>>

\* C2: after each delta the bid levels are strictly descending by price and
\* the ask levels strictly ascending, so no price appears twice on a side.
C2_SidesStrictlySorted ==
    obCall.op = "applyDelta" =>
        /\ \A i \in 1..(Len(bids) - 1) : bids[i].price > bids[i + 1].price
        /\ \A i \in 1..(Len(asks) - 1) : asks[i].price < asks[i + 1].price
        /\ Cardinality(PriceSet(bids)) = Len(bids)
        /\ Cardinality(PriceSet(asks)) = Len(asks)

\* an applied delta inserted a price that sorts before a level already held,
\* on both sides
C2_Witness ==
    /\ obCall.op = "applyDelta"
    /\ obCall.applied
    /\ Len(bids) = MaxPrice
    /\ Len(asks) = MaxPrice
    /\ Len(obCall.bids) = 1
    /\ Len(obCall.asks) = 1
    /\ obCall.bids[1] = bids[1]
    /\ obCall.asks[1] = asks[1]

\* the step that runs applyDelta on the delivered update u
IsApplyStep(u) == inbox = Some(u) /\ inbox' = None

\* C3: a delta whose sequence number is <= the last applied sequence leaves
\* bids, asks, sequence and lastUpdate unchanged, whatever updates it carries.
C3_StaleDeltaDropped ==
    [][\A u \in inbox :
          (/\ IsApplyStep(u)
           /\ IsSome(u.sequence)
           /\ IsSome(lastSequence)
           /\ ValueOf(u.sequence) <= ValueOf(lastSequence))
          => UNCHANGED BookVars]_vars

\* a dropped delta with the sequence number of the last applied one, that
\* would have changed both sides, arriving after the clock moved on
C3_Witness ==
    /\ obCall.op = "applyDelta"
    /\ ~obCall.applied
    /\ obCall.sequence = lastSequence
    /\ now > lastUpdate
    /\ \E i \in 1..Len(obCall.bids) :
          obCall.bids[i].size > 0 /\ obCall.bids[i] \notin LevelSet(bids)
    /\ \E i \in 1..Len(obCall.asks) :
          obCall.asks[i].size <= 0 /\ obCall.asks[i].price \in PriceSet(asks)

\* the last entry of updates that lists price p
LastListed(updates, p) ==
    updates[CHOOSE i \in 1..Len(updates) :
                /\ updates[i].price = p
                /\ \A j \in (i + 1)..Len(updates) : updates[j].price # p]

\* the levels of one side after a merge, from that side's previous levels
\* and that side's updates alone
MergedSide(previous, updates, result) ==
    /\ \A p \in PriceSet(updates) :
          IF LastListed(updates, p).size <= 0
          THEN p \notin PriceSet(result)
          ELSE /\ LastListed(updates, p) \in LevelSet(result)
               /\ \A l \in LevelSet(result) : l.price = p => l = LastListed(updates, p)
    /\ \A l \in LevelSet(previous) :
          l.price \notin PriceSet(updates) => l \in LevelSet(result)
    /\ \A l \in LevelSet(result) :
          l.price \notin PriceSet(updates) => l \in LevelSet(previous)

\* C4: an applied delta leaves on each side exactly the merge of that side's
\* previous levels with that side's updates (size <= 0 removes, size > 0
\* sets, the last entry for a price wins, unlisted prices stay), also when
\* the result is a crossed book.
C4_SideMergedFromOwnUpdates ==
    [][\A u \in inbox :
          (/\ IsApplyStep(u)
           /\ ~(/\ IsSome(u.sequence)
                /\ IsSome(lastSequence)
                /\ ValueOf(u.sequence) <= ValueOf(lastSequence)))
          => /\ MergedSide(bids, u.bids, bids')
             /\ MergedSide(asks, u.asks, asks')]_vars

\* an applied delta that lists one bid price twice, overwrites a held level
\* and leaves best bid >= best ask, the asks being as they were
C4_Witness ==
    /\ obCall.op = "applyDelta"
    /\ obCall.applied
    /\ Len(obCall.bids) = 2
    /\ obCall.bids[1].price = obCall.bids[2].price
    /\ obCall.bids[1].size # obCall.bids[2].size
    /\ obCall.bids[2].size > 0
    /\ obCall.asks = <<>>
    /\ Len(bids) = 2
    /\ asks # <<>>
    /\ bids[1].price >= asks[1].price

(***************************************************************************)
(* Claims about the risk gate                                              *)
(***************************************************************************)
\* the step that evaluates gateSignal
IsGateStep == gateCall.op # "gateSignal" /\ gateCall'.op = "gateSignal"

\* the seven checks in the order of the claim: whether each one fails for
\* the signal in the state the gate is called in
Failing(signal) ==
    <<checkKillSwitch,
      ~checkDailyLoss,
      ~checkPositionLimit(currentPositionOf(signal), signal.size),
      ~checkGrossExposure(positions),
      Abs(netExposure(positions)) > rgConfig.maxNetExposure,
      ~OrderRateAllowed,
      StaleFeed(signal)>>

ReasonOfCheck ==
    <<"Kill switch active", "Daily loss limit reached", "Position limit exceeded",
      "Gross exposure limit exceeded", "Net exposure limit",
      "Order rate limit exceeded", "Stale price feed">>

FirstFailing(signal) ==
    CHOOSE i \in 1..7 : Failing(signal)[i] /\ \A j \in 1..(i - 1) : ~Failing(signal)[j]

\* C5: a gated decision carries exactly one reason, that of the earliest
\* failing check in the order kill switch, daily loss, position limit, gross
\* exposure, net exposure, order rate, stale feed; the decision is not gated
\* exactly when all seven checks pass.
C5_FirstFailingCheckReported ==
    [][IsGateStep =>
          LET signal == gateCall'.signal
          IN  IF \E i \in 1..7 : Failing(signal)[i]
              THEN /\ gateCall'.gated
                   /\ gateCall'.gateReasons = <<ReasonOfCheck[FirstFailing(signal)]>>
              ELSE /\ ~gateCall'.gated
                   /\ gateCall'.gateReasons = <<>>]_vars

\* a decision gated for the daily loss although the position limit fails too
C5_Witness ==
    /\ gateCall.op = "gateSignal"
    /\ gateCall.gated
    /\ gateCall.gateReasons = <<"Daily loss limit reached">>
    /\ ~checkPositionLimit(currentPositionOf(gateCall.signal), gateCall.signal.size)
    /\ ~checkGrossExposure(positions)

\* the signed change of the position a signal proposes
ProposedDelta(signal) == IF signal.side = "buy" THEN signal.size ELSE 0 - signal.size

HeldSize(signal) ==
    IF IsSome(currentPositionOf(signal)) THEN ValueOf(currentPositionOf(signal)) ELSE 0

ReachedPositionCheck == gateCall.op = "gateSignal" /\ ~checkKillSwitch /\ checkDailyLoss

\* C6: the position-limit check gates a signal exactly when
\* |currentPositionSize + proposedDelta| > maxPositionPerToken, proposedDelta
\* being +size for a buy and -size for a sell and maxPositionPerToken the
\* value the RiskGate was constructed with.
C6_PositionLimitAsClaimed ==
    ReachedPositionCheck =>
        (gateCall.gateReasons = <<"Position limit exceeded">>
         <=> Abs(HeldSize(gateCall.signal) + ProposedDelta(gateCall.signal))
                 > rgConfig.maxPositionPerToken)

\* C7: the daily-loss check trips exactly when the PnL accumulated since the
\* start of the current UTC day is negative with magnitude >= the daily loss
\* limit, so a loss of a previous UTC day gates nothing on a later day.
C7_DailyLossOfCurrentDayOnly ==
    (gateCall.op = "gateSignal" /\ ~checkKillSwitch) =>
        (gateCall.gateReasons = <<"Daily loss limit reached">>
         <=> (pnlToday < 0 /\ Abs(pnlToday) >= rmConfig.MAX_DAILY_LOSS))

\* C8: no more than maxOrderRatePerSecond evaluations pass the order-rate
\* check within any interval of one second.
C8_SlidingWindowRate ==
    Len(ratePasses) <= rmConfig.MAX_ORDER_RATE_PER_SECOND

EarlyReasons ==
    {<<ReasonOfCheck[i]>> : i \in 1..5}

GateFrame ==
    UNCHANGED <<positions, balance, lastPriceUpdate, killSwitchFile, dailyPnl,
                dailyStartTime, rmConfig, rgConfig>>

C10_ExposureLimitsStrict ==
    (/\ gateCall.op = "gateSignal"
     /\ ~checkKillSwitch
     /\ checkDailyLoss
     /\ gateCall.gateReasons # <<"Position limit exceeded">>)
    => LET gross == SumOver([k \in PositionKeys |-> Abs(positions[k])], PositionKeys)
           net == SumOver(positions, PositionKeys)
       IN  /\ gateCall.gateReasons = <<"Gross exposure limit exceeded">>
              <=> gross > rmConfig.MAX_GROSS_EXPOSURE
           /\ gross <= rmConfig.MAX_GROSS_EXPOSURE =>
                 (gateCall.gateReasons = <<"Net exposure limit">>
                  <=> Abs(net) > rgConfig.maxNetExposure)

\* an evaluation that passed the gross check with the gross exposure equal
\* to its limit and was then gated on net exposure
C10_Witness ==
    /\ gateCall.op = "gateSignal"
    /\ SumOver([k \in PositionKeys |-> Abs(positions[k])], PositionKeys)
          = rmConfig.MAX_GROSS_EXPOSURE
    /\ gateCall.gateReasons = <<"Net exposure limit">>

\* the age of the price update recorded for a token
FeedAge(tokenId) == now - ValueOf(lastPriceUpdate[tokenId])

\* C11: when the six earlier checks pass and a price update is recorded for
\* the signal's token, the decision is gated with the stale-feed reason when
\* that update is older than staleFeedMs and is not gated when it is at most
\* staleFeedMs old.
C11_StaleFeedGated ==
    [][(/\ IsGateStep
        /\ \A i \in 1..6 : ~Failing(gateCall'.signal)[i]
        /\ IsSome(lastPriceUpdate[gateCall'.signal.tokenId]))
       => IF FeedAge(gateCall'.signal.tokenId) > rgConfig.staleFeedMs
          THEN gateCall'.gated /\ gateCall'.gateReasons = <<"Stale price feed">>
          ELSE ~gateCall'.gated]_vars

\* a signal that passed with its price update exactly staleFeedMs old
C11_Witness ==
    /\ gateCall.op = "gateSignal"
    /\ ~gateCall.gated
    /\ IsSome(lastPriceUpdate[gateCall.signal.tokenId])
    /\ FeedAge(gateCall.signal.tokenId) = rgConfig.staleFeedMs

(***************************************************************************)
(* Claims about the circuit breakers                                       *)
(***************************************************************************)
\* the errors recorded in the trailing errorWindowMs
TrailingErrors ==
    Cardinality({k \in 1..Len(errorTimes) : now - errorTimes[k] <= errorWindowMs})

\* the three conditions in the order of the claim, for the arguments of a call
BreakerTripped(call) ==
    <<(~call.wsConnected /\ IsSome(call.wsDisconnectTime)
       /\ now - ValueOf(call.wsDisconnectTime) > cbConfig.WEBSOCKET_DISCONNECT_TIMEOUT_MS),
      (IsSome(call.lastPriceUpdate)
       /\ now - ValueOf(call.lastPriceUpdate) > cbConfig.PRICE_FEED_STALE_MS),
      TrailingErrors > cbConfig.MAX_ERROR_RATE_PER_MINUTE>>

ReasonOfBreaker == <<"WebSocket disconnected", "Price feed stale", "Error rate too high">>

\* C12: checkCircuitBreakers refuses with the first condition that holds, in
\* the order websocket disconnected longer than the timeout, price update
\* older than the stale limit, more errors in the trailing 60 seconds than
\* maxErrorRatePerMinute; it allows when none holds.
C12_FirstTrippedBreaker ==
    [][cbCall'.op = "checkCircuitBreakers" /\ cbCall' # cbCall =>
          LET tripped == BreakerTripped(cbCall')
          IN  IF \E i \in 1..3 : tripped[i]
              THEN /\ ~cbCall'.allowed
                   /\ cbCall'.reason =
                         ReasonOfBreaker[CHOOSE i \in 1..3 :
                                            tripped[i] /\ \A j \in 1..(i - 1) : ~tripped[j]]
              ELSE cbCall'.allowed]_vars

(***************************************************************************)
(* Claims about the paper execution simulator                              *)
(***************************************************************************)
\* what the claim compares of a fill
FillView(fill) ==
    [orderId |-> fill.orderId, price |-> fill.price, size |-> fill.size, fee |-> fill.fee]

FillViews(fills) == [k \in 1..Len(fills) |-> FillView(fills[k])]

\* C1: two simulators with the same config, fed the same sequence of
\* placeOrder and processMarketUpdate calls, hold the same sequence of fills:
\* same order ids, prices, sizes and fees, in the same order.
C1_SameCallsSameFills ==
    \A i, j \in Instances : FillViews(sims[i].fills) = FillViews(sims[j].fills)

\* C13: an order id that has left the open table, by a full fill or by
\* cancelOrder, is not open again after any later operation.
C13_ClosedStaysClosed ==
    closedIds \cap OpenIds(sim) = {}

\* the step that runs processMarketUpdate on the recorded simulator
IsProcessStep == simCall.op = "idle" /\ simCall'.op = "processMarketUpdate"

FillsOfOrder(fills, id) == SelectSeq(fills, LAMBDA f : f.orderId = id)

\* the side of the book an order trades against
OpposingSide(order, book) == IF order.side = "buy" THEN book.asks ELSE book.bids

StillOpenAs(order) ==
    \E k \in 1..Len(sims'[1].openOrders) : sims'[1].openOrders[k] = order

\* C14: processMarketUpdate on the token of an open market order fills it at
\* the best opposing price with size min(remaining size, size of that level);
\* with the opposing side empty it produces no fill and the order stays open
\* with its size unchanged.
C14_MarketOrderFill ==
    [][IsProcessStep =>
          \A k \in 1..Len(sim.openOrders) :
              LET order == sim.openOrders[k]
                  opposing == OpposingSide(order, simCall'.book)
                  got == FillsOfOrder(simCall'.newFills, order.id)
              IN  (order.type = "market" /\ order.tokenId = simCall'.tokenId) =>
                      IF opposing = <<>>
                      THEN got = <<>> /\ StillOpenAs(order)
                      ELSE /\ Len(got) = 1
                           /\ got[1].price = opposing[1].price
                           /\ got[1].size = Min(order.size, opposing[1].size)]_vars

\* a market order filled for less than its size, still open with the rest
C14_Witness ==
    /\ simCall.op = "processMarketUpdate"
    /\ \E n \in 1..Len(simCall.newFills), k \in 1..Len(sim.openOrders) :
          /\ sim.openOrders[k].id = simCall.newFills[n].orderId
          /\ sim.openOrders[k].type = "market"
          /\ sim.openOrders[k].size = 1
          /\ simCall.newFills[n].size = 1

\* whether a limit order crosses the book: buy at or above the best ask,
\* sell at or below the best bid
Crosses(order, book) ==
    /\ order.type = "limit"
    /\ OpposingSide(order, book) # <<>>
    /\ IF order.side = "buy" THEN order.price >= book.asks[1].price
       ELSE order.price <= book.bids[1].price

\* C15: a limit order that crosses a book whose opposing side is not empty
\* is filled by processMarketUpdate on its token at the best opposing price,
\* with size min(remaining size, size of the best opposing level).
C15_CrossingLimitFill ==
    [][IsProcessStep =>
          \A k \in 1..Len(sim.openOrders) :
              LET order == sim.openOrders[k]
                  opposing == OpposingSide(order, simCall'.book)
                  got == FillsOfOrder(simCall'.newFills, order.id)
              IN  (order.tokenId = simCall'.tokenId /\ Crosses(order, simCall'.book)) =>
                      /\ Len(got) = 1
                      /\ got[1].price = opposing[1].price
                      /\ got[1].size = Min(order.size, opposing[1].size)]_vars

\* whether a trade print has reached the limit of an order
TradeReached(order, trade) ==
    /\ IsSome(trade)
    /\ IF order.side = "buy" THEN ValueOf(trade).price <= order.price
       ELSE ValueOf(trade).price >= order.price

\* C16: a limit order that does not cross the supplied book gets no fill from
\* a processMarketUpdate call that carries no trade print or one whose price
\* has not reached its limit, whatever the draw.
C16_PassiveNeedsTrade ==
    [][IsProcessStep =>
          \A k \in 1..Len(sim.openOrders) :
              LET order == sim.openOrders[k]
              IN  (/\ order.type = "limit"
                   /\ ~Crosses(order, simCall'.book)
                   /\ ~TradeReached(order, simCall'.trade))
                  => /\ FillsOfOrder(simCall'.newFills, order.id) = <<>>
                     /\ StillOpenAs(order)]_vars

\* a resting limit buy on the processed token, both sides of the book
\* present, after a trade print above its limit: not filled
C16_Witness ==
    /\ simCall.op = "processMarketUpdate"
    /\ simCall.newFills = <<>>
    /\ IsSome(simCall.trade)
    /\ simCall.book.bids # <<>>
    /\ simCall.book.asks # <<>>
    /\ \E k \in 1..Len(sim.openOrders) :
          /\ sim.openOrders[k].tokenId = simCall.tokenId
          /\ sim.openOrders[k].type = "limit"
          /\ sim.openOrders[k].side = "buy"
          /\ ~Crosses(sim.openOrders[k], simCall.book)
          /\ ValueOf(simCall.trade).price > sim.openOrders[k].price

\* C17: a passive fill, the fill of a limit order that does not cross the
\* book, is all-or-nothing: it is the only fill of the order in the call, its
\* size is the whole remaining size, its price the limit price, its
\* spreadPaid zero, and the order leaves the open table.
C17_PassiveFillWhole ==
    [][IsProcessStep =>
          \A k \in 1..Len(sim.openOrders) :
              LET order == sim.openOrders[k]
                  got == FillsOfOrder(simCall'.newFills, order.id)
              IN  (/\ order.type = "limit"
                   /\ ~Crosses(order, simCall'.book)
                   /\ got # <<>>)
                  => /\ Len(got) = 1
                     /\ got[1].size = order.size
                     /\ got[1].price = order.price
                     /\ got[1].spreadPaid = 0
                     /\ order.id \notin OpenIds(sims'[1])]_vars

\* a resting buy of size 2 filled whole below the best ask and away from
\* the mid price, its id no longer open
C17_Witness ==
    /\ simCall.op = "processMarketUpdate"
    /\ \E n \in 1..Len(simCall.newFills) :
          LET fill == simCall.newFills[n]
          IN  /\ fill.side = "buy"
              /\ simCall.book.asks # <<>>
              /\ fill.price < simCall.book.asks[1].price
              /\ fill.size = 2
              /\ fill.slippage > 0
              /\ fill.spreadPaid = 0
              /\ fill.orderId \notin OpenIds(sim)

\* C18: every recorded fill has fee = fill price x fill size x feeRate, and
\* a non-negative fee, slippage and spreadPaid.
C18_FeeAndCostsOfFills ==
    \A n \in 1..Len(sim.fills) :
        LET fill == sim.fills[n]
        IN  /\ fill.fee = fill.price * fill.size * simConfig.feeRate
            /\ fill.fee >= 0
            /\ fill.slippage >= 0
            /\ fill.spreadPaid >= 0

\* a sell filled at its limit above the mid price, the fee charged on it
C18_Witness ==
    \E n \in 1..Len(sim.fills) :
        LET fill == sim.fills[n]
        IN  /\ fill.side = "sell"
            /\ fill.spreadPaid = 0
            /\ fill.slippage > 0
            /\ fill.size > 1
            /\ fill.fee > fill.price * simConfig.feeRate

\* the place of an order id in the open table, the order of registration
PlaceOf(s, id) == CHOOSE k \in 1..Len(s.openOrders) : s.openOrders[k].id = id

OrdersOfOtherTokens(s, tokenId) == SelectSeq(s.openOrders, LAMBDA o : o.tokenId # tokenId)

\* C19: processMarketUpdate(tokenId, ...) returns, and appends to the fill
\* history, at most one fill per open order of that token, the fills in the
\* order the orders were registered; the open orders of other tokens get no
\* fill and stay as they were.
C19_FillsInRegistrationOrder ==
    [][IsProcessStep =>
          LET newFills == simCall'.newFills
          IN  /\ sims'[1].fills = sim.fills \o newFills
              /\ \A n \in 1..Len(newFills) :
                    /\ newFills[n].orderId \in OpenIds(sim)
                    /\ newFills[n].tokenId = simCall'.tokenId
                    /\ sim.openOrders[PlaceOf(sim, newFills[n].orderId)].tokenId
                          = simCall'.tokenId
              /\ \A n, m \in 1..Len(newFills) :
                    n < m => PlaceOf(sim, newFills[n].orderId)
                                < PlaceOf(sim, newFills[m].orderId)
              /\ OrdersOfOtherTokens(sims'[1], simCall'.tokenId)
                    = OrdersOfOtherTokens(sim, simCall'.tokenId)]_vars

\* two orders filled by one call, the one registered first, o2, reported first
C19_Witness ==
    /\ simCall.op = "processMarketUpdate"
    /\ Len(simCall.newFills) = 2
    /\ simCall.newFills[1].orderId = "o2"
    /\ simCall.newFills[2].orderId = "o1"
    /\ simCall.newFills[1].size < simCall.newFills[2].size

(***************************************************************************)
(* Claims about position sizing                                            *)
(***************************************************************************)
IsPositive(a) == a[1] > 0

\* clamp(x, 0, 1)
Clamp01(x) == IF x[1] < 0 THEN Whole(0) ELSE IF x[1] > x[2] THEN Whole(1) ELSE x

\* the size each policy of the claim gives
KellySizeClaimed(call) ==
    LET p == ValueOf(call.winProb)
        b == RatDiv(ValueOf(call.winAmount), ValueOf(call.lossAmount))
    IN  RatTimes(<<1, 4>>,
                 RatTimes(call.balance,
                          Clamp01(RatMinus(p, RatDiv(RatMinus(Whole(1), p), b)))))

StopLossSizeClaimed(call) ==
    RatDiv(RatTimes(call.balance,
                    IF IsSome(call.riskPerTrade) THEN ValueOf(call.riskPerTrade)
                    ELSE <<2, 100>>),
           ValueOf(call.stopLoss))

HasKelly(call) == IsSome(call.winProb) /\ IsSome(call.winAmount) /\ IsSome(call.lossAmount)

\* C20, as stated: calculatePositionSize never returns more than signalSize;
\* with win probability, win amount and loss amount it returns
\* min(signalSize, 0.25 x balance x clamp(p - (1-p)/(winAmount/lossAmount), 0, 1)),
\* whether or not a stop-loss is supplied; with only a stop-loss distance it
\* returns min(signalSize, balance x riskPerTrade / stopLossDistance); with
\* neither it returns min(signalSize, 0.05 x balance).  Stated for every
\* call in which the quotients are defined.
C20_SizingAsStated ==
    sizeCall.op = "calculatePositionSize" =>
        /\ RatLe(sizeCall.result, sizeCall.signalSize)
        /\ IF HasKelly(sizeCall)
           THEN (ValueOf(sizeCall.winAmount)[1] # 0 /\ ValueOf(sizeCall.lossAmount)[1] # 0)
                => RatEq(sizeCall.result,
                         RatMin(sizeCall.signalSize, KellySizeClaimed(sizeCall)))
           ELSE IF IsSome(sizeCall.stopLoss)
           THEN ValueOf(sizeCall.stopLoss)[1] # 0
                => RatEq(sizeCall.result,
                         RatMin(sizeCall.signalSize, StopLossSizeClaimed(sizeCall)))
           ELSE RatEq(sizeCall.result,
                      RatMin(sizeCall.signalSize, RatTimes(<<5, 100>>, sizeCall.balance)))

\* C20: the same with the amounts and the distance of the formulas
\* positive; with a win or loss amount or a stop-loss distance that is not
\* positive, the policy still selected by what is supplied, the size is
\* min(signalSize, 0).
C20_SizingPolicies ==
    sizeCall.op = "calculatePositionSize" =>
        /\ RatLe(sizeCall.result, sizeCall.signalSize)
        /\ IF HasKelly(sizeCall)
           THEN IF IsPositive(ValueOf(sizeCall.winAmount))
                   /\ IsPositive(ValueOf(sizeCall.lossAmount))
                THEN RatEq(sizeCall.result,
                           RatMin(sizeCall.signalSize, KellySizeClaimed(sizeCall)))
                ELSE RatEq(sizeCall.result, RatMin(sizeCall.signalSize, Whole(0)))
           ELSE IF IsSome(sizeCall.stopLoss)
           THEN IF IsPositive(ValueOf(sizeCall.stopLoss))
                THEN RatEq(sizeCall.result,
                           RatMin(sizeCall.signalSize, StopLossSizeClaimed(sizeCall)))
                ELSE RatEq(sizeCall.result, RatMin(sizeCall.signalSize, Whole(0)))
           ELSE RatEq(sizeCall.result,
                      RatMin(sizeCall.signalSize, RatTimes(<<5, 100>>, sizeCall.balance)))

\* a call with the Kelly parameters and a stop-loss, sized by Kelly below
\* the signal size where the stop-loss policy would give another size
C20_Witness ==
    /\ sizeCall.op = "calculatePositionSize"
    /\ HasKelly(sizeCall)
    /\ IsPositive(ValueOf(sizeCall.winAmount))
    /\ IsPositive(ValueOf(sizeCall.lossAmount))
    /\ IsSome(sizeCall.stopLoss)
    /\ IsPositive(ValueOf(sizeCall.stopLoss))
    /\ IsPositive(sizeCall.result)
    /\ ~RatEq(sizeCall.result, sizeCall.signalSize)
    /\ ~RatEq(sizeCall.result, RatMin(sizeCall.signalSize, StopLossSizeClaimed(sizeCall)))

\* C21: under every sizing policy calculatePositionSize returns at most 5%
\* of the balance.
C21_FivePercentCeiling ==
    sizeCall.op = "calculatePositionSize" =>
        RatLe(sizeCall.result, RatTimes(<<5, 100>>, sizeCall.balance))

(***************************************************************************)
(* Claims about the configuration                                          *)
(***************************************************************************)
\* C22: a gate that evaluates a signal has no zero or negative threshold
\* (maxPositionPerToken, maxGrossExposure, maxNetExposure, maxDailyLoss,
\* maxOrderRatePerSecond, staleFeedMs): constructing the gate or loading
\* its configuration with such a threshold fails.
C22_NoGateWithBadThreshold ==
    gateCall.op = "gateSignal" =>
        /\ \A n \in GateLimitNames : rgConfig[n] > 0
        /\ \A n \in EnvNames : rmConfig[n] > 0

(***************************************************************************)
(* Claims about the market state store                                     *)
(***************************************************************************)
\* the first n levels of a side, in the order supplied
FirstLevels(side, n) == [i \in 1..(IF Len(side) < n THEN Len(side) ELSE n) |-> side[i]]

\* C24: after OrderBookStore.update(tokenId, book) the stored book of
\* tokenId has on each side exactly the first topN levels of the supplied
\* side, in the supplied order, and after any sequence of updates no stored
\* book has more than topN levels a side.
C24_TrimmedToTopN ==
    [][/\ storeCall'.op = "update" =>
            LET stored == books'[storeCall'.tokenId]
            IN  /\ IsSome(stored)
                /\ ValueOf(stored).bids = FirstLevels(storeCall'.book.bids, topN)
                /\ ValueOf(stored).asks = FirstLevels(storeCall'.book.asks, topN)
       /\ \A t \in Tokens :
            IsSome(books'[t]) =>
                /\ Len(ValueOf(books'[t]).bids) <= topN
                /\ Len(ValueOf(books'[t]).asks) <= topN]_vars

\* a book with more than topN levels on both sides was stored, cut to topN,
\* the other token holding a book from an earlier update
C24_Witness ==
    /\ storeCall.op = "update"
    /\ Len(storeCall.book.bids) > topN
    /\ Len(storeCall.book.asks) > topN
    /\ Len(ValueOf(books[storeCall.tokenId]).bids) = topN
    /\ Len(ValueOf(books[storeCall.tokenId]).asks) = topN
    /\ \A t \in Tokens : IsSome(books[t])

\* the last n entries of a sequence, in their order
LastEntries(s, n) ==
    LET m == IF Len(s) < n THEN Len(s) ELSE n
    IN  [i \in 1..m |-> s[Len(s) - m + i]]

\* C25: after any sequence of addTrade calls the tape of each token holds
\* at most maxTradesPerToken records and its price history at most
\* 2 x volWindow prices, and both hold the most recent entries in arrival
\* order.
C25_TapesKeepMostRecent ==
    \A t \in Tokens :
        /\ Len(trades[t]) <= maxTradesPerToken
        /\ Len(priceHistory[t]) <= 2 * volWindow
        /\ [i \in 1..Len(trades[t]) |-> trades[t][i].price]
               = LastEntries(added[t], maxTradesPerToken)
        /\ \A i \in 1..Len(trades[t]) : trades[t][i].tokenId = t
        /\ priceHistory[t] = LastEntries(added[t], 2 * volWindow)

\* more trades than either capacity were added for one token, with
\* different prices, and the oldest was dropped
C25_Witness ==
    \E t \in Tokens :
        /\ Len(added[t]) > maxTradesPerToken
        /\ Len(added[t]) > 2 * volWindow
        /\ added[t][1] # added[t][Len(added[t])]
        /\ Len(trades[t]) = maxTradesPerToken
        /\ Len(priceHistory[t]) = 2 * volWindow

\* C26: updateOrderBook, addTrade and getDerivedFeatures for one token
\* leave the stored book, the trade tape, the price history and the EMA
\* state of every other token unchanged.
C26_OtherTokensUntouched ==
    [][storeCall'.op \in {"updateOrderBook", "addTrade", "getDerivedFeatures"} =>
            \A u \in Tokens \ {storeCall'.tokenId} :
                /\ books'[u] = books[u]
                /\ trades'[u] = trades[u]
                /\ priceHistory'[u] = priceHistory[u]
                /\ emas'[u] = emas[u]]_vars

\* features with an EMA were read for one token while the other token held
\* a book, trades and an older EMA of another value
C26_Witness ==
    /\ storeCall.op = "getDerivedFeatures"
    /\ IsSome(storeCall.features.ema)
    /\ \E u \in Tokens \ {storeCall.tokenId} :
        /\ IsSome(books[u])
        /\ trades[u] # <<>>
        /\ IsSome(emas[u])
        /\ emas[u] # emas[storeCall.tokenId]

\* the fields of the features the claims compare
SameFeatures(f, g) ==
    /\ f.midPrice = g.midPrice
    /\ f.spread = g.spread
    /\ f.spreadBps = g.spreadBps
    /\ f.bidDepth = g.bidDepth
    /\ f.askDepth = g.askDepth
    /\ f.ema = g.ema
    /\ f.ewmaVol = g.ewmaVol

\* C27: a getDerivedFeatures call for a token that follows another one for
\* the same token, with no updateOrderBook or addTrade for it in between,
\* returns the same midPrice, spread, spreadBps, depths, ema and ewmaVol.
C27_ReadsRepeat ==
    [][(readCount' = readCount + 1 /\ IsSome(readSince[storeCall'.tokenId])) =>
            SameFeatures(storeCall'.features, ValueOf(readSince[storeCall'.tokenId]))]_vars

\* the EMA recurrence with smoothing factor 2/(N+1) over p1..pk, seeded
\* with p1
RECURSIVE EmaOver(_, _)
EmaOver(prices, k) ==
    IF k = 1 THEN prices[1]
    ELSE RatPlus(RatTimes(<<2, emaPeriod + 1>>, prices[k]),
                 RatTimes(<<emaPeriod - 1, emaPeriod + 1>>, EmaOver(prices, k - 1)))

\* C28: the ema reported for a token after the trades p1..pk were added for
\* it is the EMA recurrence applied to p1..pk in order, seeded with p1 and
\* updated once per trade.
C28_EmaOfTrades ==
    (storeCall.op = "getDerivedFeatures" /\ IsSome(storeCall.features.ema)) =>
        RatEq(ValueOf(storeCall.features.ema),
              EmaOver(added[storeCall.tokenId], Len(added[storeCall.tokenId])))

\* every trade added for the token had the price P
AllAt(prices, P) == \A i \in 1..Len(prices) : RatEq(prices[i], P)

\* C29: when every trade added for a token has the same price P, the ema
\* reported for the token (one is reported once the token has a book and a
\* trade) equals P, after any number of trades and of feature reads.
C29_ConstantPriceEma ==
    \A P \in TradePrices :
        (/\ storeCall.op = "getDerivedFeatures"
         /\ added[storeCall.tokenId] # <<>>
         /\ AllAt(added[storeCall.tokenId], P)) =>
            /\ IsSome(storeCall.features.ema) => RatEq(ValueOf(storeCall.features.ema), P)
            /\ IsSome(books[storeCall.tokenId]) => IsSome(storeCall.features.ema)

\* the last of several reads for a token with a book, all of whose trades,
\* MaxTrades of them, had the same price: the ema reported is that price
C29_Witness ==
    /\ storeCall.op = "getDerivedFeatures"
    /\ readCount = MaxReads
    /\ \A u \in Tokens \ {storeCall.tokenId} : books[u] = None /\ added[u] = <<>>
    /\ Len(added[storeCall.tokenId]) = MaxTrades
    /\ AllAt(added[storeCall.tokenId], Whole(2))
    /\ storeCall.features.ema = Some(Whole(2))

\* C30: getDerivedFeatures for a token with no stored book returns midPrice,
\* spread, spreadBps, ema and ewmaVol null and both depths zero, also when
\* trades were added for the token, and changes no stored state.
C30_NoBookNoFeatures ==
    [][(readCount' = readCount + 1 /\ books[storeCall'.tokenId] = None) =>
            /\ storeCall'.features.midPrice = None
            /\ storeCall'.features.spread = None
            /\ storeCall'.features.spreadBps = None
            /\ storeCall'.features.ema = None
            /\ storeCall'.features.ewmaVol = None
            /\ storeCall'.features.bidDepth = 0
            /\ storeCall'.features.askDepth = 0
            /\ UNCHANGED <<books, trades, priceHistory, emas>>]_vars

\* features were read for a token with two or more trades and no book,
\* the other token holding a book
C30_Witness ==
    /\ storeCall.op = "getDerivedFeatures"
    /\ books[storeCall.tokenId] = None
    /\ Len(added[storeCall.tokenId]) >= 2
    /\ storeCall.features.ema = None
    /\ storeCall.features.ewmaVol = None
    /\ emas[storeCall.tokenId] = None
    /\ \E u \in Tokens : IsSome(books[u])

(***************************************************************************)
(* Claims about the experiment runner                                      *)
(***************************************************************************)
\* the ids of the orders the simulator holds or has filled
PlacedIds == OpenIds(sim) \cup {sim.fills[k].orderId : k \in 1..Len(sim.fills)}

\* C23: a signal for which gateSignal returned gated = true is never an
\* open order of the simulator and never has a fill, in its tick or any
\* later one; the orders and fills of the simulator are those of signals
\* returned with gated = false.
C23_GatedNeverPlaced ==
    /\ gatedIds \cap PlacedIds = {}
    /\ PlacedIds \subseteq passedIds

\* a signal was gated, and after it a later signal passed the gate, was
\* placed and filled, while an earlier one is still open
C23_Witness ==
    /\ \E g \in gatedIds : \E k \in 1..Len(sim.fills) : sim.fills[k].orderId > g
    /\ \E g \in gatedIds : \E o \in OpenIds(sim) : o < g
    /\ runner.phase = "idle"

(***************************************************************************)
(* Claims about the orders of the simulator over their whole life          *)
(***************************************************************************)
RECURSIVE FilledTotal(_)
FilledTotal(entries) ==
    IF entries = <<>> THEN 0 ELSE Head(entries).size + FilledTotal(Tail(entries))

RECURSIVE TakenAt(_, _, _)
\* the size the fills of one side took at a price
TakenAt(fills, side, price) ==
    IF fills = <<>> THEN 0
    ELSE (IF Head(fills).side = side /\ Head(fills).price = price
          THEN Head(fills).size ELSE 0)
         + TakenAt(Tail(fills), side, price)

\* C38: the fills of one processMarketUpdate call that take the best ask
\* (the best bid) together take no more than the size resting at that level
\* of the supplied book
C38_LevelNotOverfilled ==
    simCall.op = "processMarketUpdate" =>
        /\ simCall.book.asks # <<>> =>
               TakenAt(simCall.newFills, "buy", simCall.book.asks[1].price)
                   <= simCall.book.asks[1].size
        /\ simCall.book.bids # <<>> =>
               TakenAt(simCall.newFills, "sell", simCall.book.bids[1].price)
                   <= simCall.book.bids[1].size

\* order id is open as a market order
MarketOpen(id) ==
    \E k \in 1..Len(sim.openOrders) :
        sim.openOrders[k].id = id /\ sim.openOrders[k].type = "market"

\* C39: when processMarketUpdate keeps being called with a non-empty
\* opposing side, every open market order leaves the open table, filled to
\* its size unless it was cancelled, and every call with a non-empty side
\* opposing an open market order leaves the order with a smaller size or
\* removes it
C39_MarketOrderFillsCompletely ==
    /\ \A id \in OrderIds :
           MarketOpen(id) ~>
               (/\ id \notin OpenIds(sim)
                /\ ledger[id].cancelled
                       \/ FilledTotal(ledger[id].filled) = ledger[id].placed)
    /\ [][\A k \in 1..Len(sim.openOrders) :
              LET order == sim.openOrders[k]
              IN  (/\ order.type = "market"
                   /\ \E book \in FairBooks :
                          /\ Opposing(order.side, book) # <<>>
                          /\ sims'[1] = processMarketUpdate(sim, order.tokenId, book,
                                                            None, NoDraws))
                  => SizeOpen(sims'[1], order.id) < order.size]_vars

\* a market order of size 2 that took two calls to fill
C39_Witness ==
    \E id \in OrderIds :
        /\ ledger[id].placed = 2
        /\ Len(ledger[id].filled) = 2
        /\ ~ledger[id].cancelled
        /\ id \notin OpenIds(sim)

(***************************************************************************)
(* Claims about the reported volatility                                    *)
(***************************************************************************)
\* C36: the reported ewmaVol is the standard deviation of the simple returns
\* over the most recent volatilityWindow prices of the token only, so that
\* an older price has no part in it
C36_VolatilityOverWindowOnly ==
    storeCall.op = "ewmaVol" =>
        LET recent == LastEntries(priceHistory["t1"], storeCall.volWindow)
        IN  IsSome(storeCall.result)
                => storeCall.result = Some(calculateVolatility(recent))

\* C37: in a run of the experiment runner the absolute position held in a
\* token never exceeds maxPositionPerToken
C37_PositionWithinLimit ==
    \A key \in DOMAIN positions : Abs(positions[key]) <= rgConfig.maxPositionPerToken

(***************************************************************************)
(* Claims about the rate limiter                                           *)
(***************************************************************************)
\* C35: under any interleaving of acquire() calls the token count stays
\* within 0..capacity and the acquire() calls completed within t seconds of
\* the construction or the last reset number at most capacity + refillRate x t
C35_BucketBounds ==
    /\ 0 <= limiter.tokens
    /\ limiter.tokens <= limiter.capacity
    /\ limiter.completed
           <= limiter.capacity + limiter.refillRate * (now - limiter.since)

(***************************************************************************)
(* Claims about the WebSocket clients                                      *)
(***************************************************************************)
\* C40: once disconnect() has been called, and until connect() is called
\* again, no reconnect timer is pending and the client makes no new socket
C40_DisconnectIsFinal ==
    wsc.disconnected => (~wsc.reconnectTimer /\ ~wsc.openedSince)

(***************************************************************************)
(* Claims about the market ingestion                                       *)
(***************************************************************************)
\* C33: once an update with sequence s has been handled for a token, the
\* book getOrderBook returns for the token has a sequence of at least s
C33_SequenceNeverDecreases ==
    \A tokenId \in Tokens :
        IsSome(ingest.applied[tokenId]) =>
            /\ IsSome(ingestedBook(tokenId))
            /\ ValueOf(ingestedBook(tokenId)).sequence >= ValueOf(ingest.applied[tokenId])

(***************************************************************************)
(* Claims about the trading bot                                            *)
(***************************************************************************)
\* C32: at most one tick of the trading loop is in progress at any time
C32_OneTickAtATime == Cardinality(TicksInProgress) <= 1

\* C34: a tick that starts when the WebSocket has been disconnected for
\* longer than the disconnect timeout is stopped by the circuit breaker
\* with the disconnect reason, and so processes no signal
C34_LongDisconnectStopsTick ==
    \A id \in TickIds :
        LET tick == bot.ticks[id]
        IN  (/\ tick.at \notin {"unused", "stop"}
             /\ "downFor" \in DOMAIN tick
             /\ IsSome(tick.downFor)
             /\ ValueOf(tick.downFor) > cbConfig.WEBSOCKET_DISCONNECT_TIMEOUT_MS)
            => (tick.at = "stopped" /\ tick.reason = "WebSocket disconnected")

====
